---------------------------- MODULE Spec2Model ----------------------------
(***************************************************************************)
(* A model of the run-time type registry rttr::detail::type_database      *)
(* (Engine/Source/Core/reflection/rttr/detail/type/type_database.cpp).    *)
(*                                                                         *)
(* C++ vectors are TLA+ sequences: the element at C++ index i is the       *)
(* element i + 1 of the sequence (operator At).  std::string and           *)
(* const char* names are sequences of one-character strings.  Wrapper      *)
(* objects (property, method, constructor, ... wrappers) are records that  *)
(* carry the fields the registry reads.                                    *)
(***************************************************************************)
EXTENDS Integers, Sequences, FiniteSets, TLC

(***************************************************************************)
(* Bounds of the model.                                                    *)
(***************************************************************************)
\* number of first registrations explored by the name/rename specification
MaxTypes == 2
\* number of registerCustomName calls explored
MaxRenames == 1
\* number of classes registered by the inheritance specification
MaxClasses == 4
\* length of a base-class list handed to register_type
MaxBases == 2
\* the classes that serve as bases are the first MaxRoots classes registered
MaxRoots == 2
\* number of classes registered by the member specification
MaxMemberTypes == 4
\* number of types registered by the constructor specification
MaxCtorTypes == 2
\* number of constructors registered in all
MaxCtors == 2
\* number of classes, and of constructors, registered by the specification
\* of constructors of classes with bases
MaxCtorClasses == 3

MaxClassCtors == 2

\* number of classes, and of members, registered by the specification of
\* members of one name in a class and its bases
MaxShadowClasses == 4

MaxShadowMembers == 3

\* number of classes, and of properties, registered by the specification of
\* the steps of update_class_list
MaxUpdateClasses == 3

MaxUpdateCalls == 2

\* number of classes registered by the fan-out specification
MaxFanOutClasses == 5
\* number of different bases of a class in the fan-out specification
MaxFanOutBases == 3
\* number of types registered by the destructor, converter and comparator
\* specifications
MaxWrapperTypes == 2
\* number of converters registered in all
MaxWrappers == 2
\* number of comparators registered in all
MaxComparators == 4
\* number of classes, and of members stored, in the specification of the
\* class members registered twice
MaxDupClasses == 2
MaxDupMembers == 3
\* number of global properties and methods stored
MaxGlobals == 3
\* number of types, and of members and items, of the registry the reading
\* threads query
MaxReadTypes == 2
MaxReadStored == 1
\* number of types, and of wrappers stored, of the registry that is torn
\* down
MaxOwnerTypes == 2
MaxOwned == 2
\* number of names registered by the specification of the hash collisions
MaxHashNames == 4
\* number of types, and of renamings, in the specification of the repeated
\* renaming
MaxRenamedTypes == 3
MaxRenameCalls == 2

\* length of the source names handed to derive_name
MaxSrcLen == 4

\* number of names registered by the id specification
MaxIdNames == 8
\* number of types registered by the lookup specification
MaxLookupTypes == 2
\* number of members and items the lookup specification stores
MaxStored == 2
\* number of types registered by the metadata and entry-point specifications
MaxItemTypes == 1

(***************************************************************************)
(* Program constants.                                                      *)
(***************************************************************************)
\* width of a fixed row of the base / derived / conversion tables
RTTR_MAX_INHERIT_TYPES_COUNT == 2
\* range of the name hash
HashRange == 7
\* type::m_invalid_id
m_invalid_id == 0
\* std::string::npos
npos == -1
\* the id counter is a uint16_t and wraps around; the model keeps three of
\* its sixteen bits, so that the wrap is within reach of a registration run
IdModulus == 8

(***************************************************************************)
(* Vectors and strings.                                                    *)
(***************************************************************************)
At(v, i) == v[i + 1]

Put(v, i, x) == [v EXCEPT ![i + 1] = x]

\* vector::resize(n, fill) as used by the registry: never shrinks
ResizeMax(v, n, fill) ==
    IF Len(v) >= n THEN v ELSE v \o [k \in 1..(n - Len(v)) |-> fill]

Max(a, b) == IF a >= b THEN a ELSE b

isspace(c) == c = " "

remove_whitespaces(text) == SelectSeq(text, LAMBDA c : ~isspace(c))

\* part occurs in text at C++ index pos
OccursAt(text, part, pos) ==
    /\ pos + Len(part) <= Len(text)
    /\ \A k \in 1..Len(part) : text[pos + k] = part[k]

\* std::string::find(part): the first index, or npos
find(text, part) ==
    LET hits == {p \in 0..Len(text) : OccursAt(text, part, p)}
    IN  IF hits = {} THEN npos
        ELSE CHOOSE p \in hits : \A q \in hits : p <= q

\* std::string::find_last_of(part): the last index holding any character of part
find_last_of(text, part) ==
    LET chars == {part[k] : k \in 1..Len(part)}
        hits  == {p \in 0..(Len(text) - 1) : text[p + 1] \in chars}
    IN  IF hits = {} THEN npos
        ELSE CHOOSE p \in hits : \A q \in hits : p >= q

\* text[pos] of a std::string: the terminating '\0' at pos = size()
CharAt(text, pos) == IF pos < Len(text) THEN text[pos + 1] ELSE "\\0"

\* std::string::insert(pos, " ")
InsertSpace(text, pos) ==
    SubSeq(text, 1, pos) \o <<" ">> \o SubSeq(text, pos + 1, Len(text))

is_space_after(text, part) ==
    LET found_pos == find(text, part)
    IN  IF found_pos = npos THEN FALSE
        ELSE LET p == found_pos + Len(part)
             IN  IF p > Len(text) THEN FALSE ELSE isspace(CharAt(text, p))

is_space_before(text, part) ==
    LET found_pos == find_last_of(text, part)
    IN  IF found_pos = npos THEN FALSE
        ELSE LET p == found_pos - 1   \* 0 - 1 wraps to npos
             IN  IF p = npos \/ p > Len(text) THEN FALSE
                 ELSE isspace(CharAt(text, p))

insert_space_after(text, part) ==
    LET found_pos == find(text, part)
    IN  IF found_pos = npos THEN text
        ELSE LET p == found_pos + Len(part)
             IN  IF p > Len(text) THEN text ELSE InsertSpace(text, p)

insert_space_before(text, part) ==
    LET found_pos == find_last_of(text, part)
    IN  IF found_pos = npos \/ found_pos > Len(text) THEN text
        ELSE InsertSpace(text, found_pos)

\* derive_name(src_name, raw_name, custom_name)
derive_name3(src_name, raw_name, custom_name) ==
    LET tmp_raw_name == remove_whitespaces(raw_name)
        tmp_src_name == remove_whitespaces(src_name)
        start_pos    == find(tmp_src_name, tmp_raw_name)
    IN  IF start_pos = npos THEN src_name
        ELSE LET end_pos    == start_pos + Len(tmp_raw_name)
                 start_part == SubSeq(tmp_src_name, 1, start_pos)
                 end_part   == SubSeq(tmp_src_name, end_pos + 1, Len(tmp_src_name))
                 replaced   == start_part \o custom_name \o end_part
                 spaced     == IF is_space_after(src_name, start_part)
                               THEN insert_space_after(replaced, start_part)
                               ELSE replaced
             IN  IF is_space_before(src_name, end_part)
                 THEN insert_space_before(spaced, end_part)
                 ELSE spaced

\* type::normalize_orig_name: white space in front of '*' and '&' is dropped
RECURSIVE normalize_orig_name(_)
normalize_orig_name(name) ==
    IF name = <<>> THEN <<>>
    ELSE LET rest == normalize_orig_name(Tail(name))
         IN  IF isspace(Head(name)) /\ rest # <<>> /\ Head(rest) \in {"*", "&"}
             THEN rest
             ELSE <<Head(name)>> \o rest

\* the character codes the hash folds
CharCode(c) ==
    CASE c = "A" -> 1
      [] c = "B" -> 2
      [] c = "X" -> 3
      [] c = "*" -> 4
      [] c = " " -> 5
      [] OTHER   -> 6

\* generate_hash: a fold over the characters, in a small range
RECURSIVE generate_hash(_)
generate_hash(text) ==
    IF text = <<>> THEN 0
    ELSE (generate_hash(Tail(text)) + CharCode(Head(text))) % HashRange


(***************************************************************************)
(* Sorting and searching.                                                  *)
(***************************************************************************)
Range(s) == {s[k] : k \in 1..Len(s)}

\* std::lower_bound over the keys of a vector: plain bisection, also on a
\* vector that is not sorted
RECURSIVE LowerBoundFrom(_, _, _, _)
LowerBoundFrom(keys, value, first, len) ==
    IF len <= 0 THEN first
    ELSE LET half == len \div 2
             mid  == first + half
         IN  IF At(keys, mid) < value
             THEN LowerBoundFrom(keys, value, mid + 1, len - half - 1)
             ELSE LowerBoundFrom(keys, value, first, half)

lower_bound(keys, value) == LowerBoundFrom(keys, value, 0, Len(keys))

HashKeys(index) == [k \in 1..Len(index) |-> index[k].m_hash_value]

IdKeys(vec) == [k \in 1..Len(vec) |-> vec[k].m_id]

\* std::sort(..., name_to_id::order_by_name()): the order of entries with
\* equal hash values is unspecified, so every ascending arrangement is an
\* outcome
RECURSIVE SortedArrangements(_)
SortedArrangements(S) ==
    IF S = {} THEN {<<>>}
    ELSE LET lows == {e \in S : \A f \in S : e.m_hash_value <= f.m_hash_value}
         IN  UNION {{<<e>> \o q : q \in SortedArrangements(S \ {e})} : e \in lows}

\* an index that is left in the order of its entries
left_unsorted(index) == {index}

sort_by_name(index) == SortedArrangements(Range(index))

\* push_back followed by std::stable_sort(..., order_by_id()): the new entry
\* lands behind the last entry whose id is not larger
RECURSIVE StableInsertById(_, _)
StableInsertById(vec, item) ==
    IF vec = <<>> THEN <<item>>
    ELSE IF vec[Len(vec)].m_id <= item.m_id THEN Append(vec, item)
    ELSE Append(StableInsertById(SubSeq(vec, 1, Len(vec) - 1), item), vec[Len(vec)])

(***************************************************************************)
(* The registry.                                                           *)
(***************************************************************************)
VARIABLES
    m_type_id_counter,
    m_orig_names, m_custom_names,
    m_orig_name_to_id, m_custom_name_to_id,
    m_type_list,
    m_raw_type_list, m_wrapped_type_list, m_array_raw_type_list,
    m_get_derived_info_func_list, m_variant_create_func_list,
    m_type_size,
    m_is_class_list, m_is_enum_list, m_is_array_list, m_is_pointer_list,
    m_is_arithmetic_list, m_is_function_pointer_list,
    m_is_member_object_pointer_list, m_is_member_function_pointer_list,
    m_pointer_dim_list,
    m_base_class_list, m_derived_class_list, m_conversion_list,
    m_type_property_map, m_class_property_map, m_global_properties,
    m_type_method_map, m_class_method_map, m_global_methods,
    m_type_ctor_map, m_type_dtor_map,
    m_enumeration_list, m_metadata_type_list,
    m_type_converter_list, m_type_comparator_list,
    \* a write behind the end of a vector has happened
    out_of_bounds,
    \* the call that was made last: its arguments and what it returned
    last_call,
    \* per type, every metadata entry handed to register_metadata, in call order
    metadata_passed,
    \* number of register_custom_name calls made
    renames,
    \* per thread inside register_type: where it stands, its arguments and
    \* its local id
    threads

nameVars == <<m_type_id_counter, m_orig_names, m_custom_names,
              m_orig_name_to_id, m_custom_name_to_id, m_type_list>>

attrVars == <<m_raw_type_list, m_wrapped_type_list, m_array_raw_type_list,
              m_get_derived_info_func_list, m_variant_create_func_list,
              m_type_size,
              m_is_class_list, m_is_enum_list, m_is_array_list, m_is_pointer_list,
              m_is_arithmetic_list, m_is_function_pointer_list,
              m_is_member_object_pointer_list, m_is_member_function_pointer_list,
              m_pointer_dim_list>>

inheritVars == <<m_base_class_list, m_derived_class_list, m_conversion_list,
                 out_of_bounds>>

propertyVars == <<m_type_property_map, m_class_property_map, m_global_properties>>

methodVars == <<m_type_method_map, m_class_method_map, m_global_methods>>

ctorVars == <<m_type_ctor_map, m_type_dtor_map>>

itemVars == <<m_enumeration_list, m_metadata_type_list, metadata_passed,
              m_type_converter_list, m_type_comparator_list>>

typeVars == <<nameVars, attrVars, inheritVars>>

memberVars == <<propertyVars, methodVars, ctorVars>>

vars == <<typeVars, memberVars, itemVars, last_call, renames, threads>>

\* every table of the registry (the bookkeeping of the model left out)
registry == <<nameVars, attrVars, m_base_class_list, m_derived_class_list,
              m_conversion_list, memberVars,
              m_enumeration_list, m_metadata_type_list,
              m_type_converter_list, m_type_comparator_list>>

nullptr == "nullptr"

\* a call: the operation, its type argument t, its name argument, its other
\* argument, and what it returned
Call(op, t, name, arg, ret) ==
    [op |-> op, t |-> t, name |-> name, arg |-> arg, ret |-> ret]

NoCall == Call("none", 0, <<>>, <<>>, 0)

\* the threads that call register_type, and a thread outside of the call
Threads == {1, 2}

Thread(pc, name, id) == [pc |-> pc, name |-> name, id |-> id]

IdleThread == Thread("idle", <<>>, 0)

\* type_database::type_database()
\* the tables of the registry after construction
InitRegistry ==
    /\ m_type_id_counter = 0
    /\ m_orig_names = << <<"!">> >>
    /\ m_custom_names = << <<"!">> >>
    /\ m_orig_name_to_id = <<>>
    /\ m_custom_name_to_id = <<>>
    /\ m_type_list = <<0>>
    /\ m_base_class_list = <<0>>
    /\ m_derived_class_list = <<0>>
    /\ m_conversion_list = <<0>>
    /\ m_get_derived_info_func_list = <<nullptr>>
    /\ m_raw_type_list = <<0>>
    /\ m_wrapped_type_list = <<0>>
    /\ m_array_raw_type_list = <<0>>
    /\ m_variant_create_func_list = <<nullptr>>
    /\ m_type_size = <<0>>
    /\ m_is_class_list = <<FALSE>>
    /\ m_is_enum_list = <<FALSE>>
    /\ m_is_array_list = <<FALSE>>
    /\ m_is_pointer_list = <<FALSE>>
    /\ m_is_arithmetic_list = <<FALSE>>
    /\ m_is_function_pointer_list = <<FALSE>>
    /\ m_is_member_object_pointer_list = <<FALSE>>
    /\ m_is_member_function_pointer_list = <<FALSE>>
    /\ m_pointer_dim_list = <<0>>
    /\ m_type_property_map = <<>>
    /\ m_class_property_map = <<>>
    /\ m_global_properties = <<>>
    /\ m_type_method_map = <<>>
    /\ m_class_method_map = <<>>
    /\ m_global_methods = <<>>
    /\ m_type_ctor_map = <<>>
    /\ m_type_dtor_map = <<>>
    /\ m_enumeration_list = <<>>
    /\ m_metadata_type_list = <<>>
    /\ m_type_converter_list = <<>>
    /\ m_type_comparator_list = <<>>
    /\ out_of_bounds = FALSE
    /\ metadata_passed = <<>>
    /\ renames = 0
    /\ threads = [th \in Threads |-> IdleThread]

Init ==
    /\ InitRegistry
    /\ last_call = NoCall

(***************************************************************************)
(* The accessors of rttr::type the registry calls.                         *)
(***************************************************************************)
is_valid(t) == t # m_invalid_id

get_raw_type(t) == At(m_raw_type_list, t)

is_class(t) == At(m_is_class_list, t)

\* the entries of a fixed row up to the first invalid one
RECURSIVE RowPrefix(_, _, _)
RowPrefix(list, row, index) ==
    IF index >= RTTR_MAX_INHERIT_TYPES_COUNT \/ row + index >= Len(list) THEN <<>>
    ELSE IF At(list, row + index) = m_invalid_id THEN <<>>
    ELSE <<At(list, row + index)>> \o RowPrefix(list, row, index + 1)

BaseClassesIn(baseList, rawList, t) ==
    RowPrefix(baseList, RTTR_MAX_INHERIT_TYPES_COUNT * At(rawList, t), 0)

DerivedClassesIn(derivedList, rawList, t) ==
    RowPrefix(derivedList, RTTR_MAX_INHERIT_TYPES_COUNT * At(rawList, t), 0)

get_base_classes(t) == BaseClassesIn(m_base_class_list, m_raw_type_list, t)

get_derived_classes(t) == DerivedClassesIn(m_derived_class_list, m_raw_type_list, t)

(***************************************************************************)
(* register_type.                                                          *)
(***************************************************************************)
\* the scan of a hash-sorted name index from the lower bound on: the id of
\* the first entry of the run of equal hash values whose stored name is the
\* name looked up, m_invalid_id when the run ends first
RECURSIVE ScanNameRun(_, _, _, _, _)
ScanNameRun(index, names, name, hash_value, pos) ==
    IF pos >= Len(index) THEN m_invalid_id
    ELSE LET item == At(index, pos)
         IN  IF item.m_hash_value # hash_value THEN m_invalid_id
             ELSE IF At(names, item.m_id) = name THEN item.m_id
             ELSE ScanNameRun(index, names, name, hash_value, pos + 1)

FindName(index, names, name) ==
    LET hash_value == generate_hash(name)
    IN  ScanNameRun(index, names, name, hash_value,
                    lower_bound(HashKeys(index), hash_value))

\* a lookup that starts its scan behind the run of equal hash values
find_registered_name_past_run(name) ==
    LET hash_value == generate_hash(name)
    IN  ScanNameRun(m_orig_name_to_id, m_orig_names, name, hash_value,
                    lower_bound(HashKeys(m_orig_name_to_id), hash_value + 1))

\* register_name, lines 920-934: the id a name is already registered under
find_registered_name(name) == FindName(m_orig_name_to_id, m_orig_names, name)

\* derive_name(array_raw_type, name)
derive_name(array_raw_type, name) ==
    IF ~is_valid(array_raw_type) THEN normalize_orig_name(name)
    ELSE derive_name3(normalize_orig_name(name),
                      normalize_orig_name(At(m_orig_names, array_raw_type)),
                      At(m_custom_names, array_raw_type))

\* register_base_class_info, lines 956-969: walking from the back, an entry
\* whose base type was seen already is erased
RECURSIVE RemoveDoubleFrom(_, _, _)
RemoveDoubleFrom(base_classes, k, double_entries) ==
    IF k = 0 THEN <<>>
    ELSE IF base_classes[k].m_base_type \in double_entries
         THEN RemoveDoubleFrom(base_classes, k - 1, double_entries)
         ELSE Append(RemoveDoubleFrom(base_classes, k - 1,
                                      double_entries \cup {base_classes[k].m_base_type}),
                     base_classes[k])

\* no entry is erased
keep_double_entries(base_classes) == base_classes

\* walking from the front: the first entry of a base type is the one kept
RECURSIVE remove_later_entries(_)
remove_later_entries(base_classes) ==
    IF base_classes = <<>> THEN <<>>
    ELSE <<Head(base_classes)>>
             \o remove_later_entries(
                    SelectSeq(Tail(base_classes),
                              LAMBDA e : e.m_base_type # Head(base_classes).m_base_type))

remove_double_entries(base_classes) ==
    RemoveDoubleFrom(base_classes, Len(base_classes), {})

\* the list is written in the order it was handed in
unsorted_base_classes(base_classes) == base_classes

\* std::sort by the id of the base type: the list is taken apart from its
\* smallest entry on (entries of the same base type keep their order)
RECURSIVE sort_base_classes(_)
sort_base_classes(base_classes) ==
    IF base_classes = <<>> THEN <<>>
    ELSE LET k == CHOOSE i \in 1..Len(base_classes) :
                      \A j \in 1..Len(base_classes) :
                          \/ base_classes[i].m_base_type < base_classes[j].m_base_type
                          \/ /\ base_classes[i].m_base_type = base_classes[j].m_base_type
                             /\ i <= j
         IN  <<base_classes[k]>>
                 \o sort_base_classes(SubSeq(base_classes, 1, k - 1)
                                      \o SubSeq(base_classes, k + 1, Len(base_classes)))

\* lines 980-985: entry index of the sorted list goes to slot row + index,
\* whatever the index; a slot behind the end of the vector is not part of it
RECURSIVE WriteRow(_, _, _, _)
WriteRow(list, row, values, index) ==
    IF index >= Len(values) THEN list
    ELSE WriteRow(IF row + index < Len(list)
                  THEN Put(list, row + index, At(values, index))
                  ELSE list,
                  row, values, index + 1)

\* lines 993-1001: the first slot of the row that holds the invalid type
RECURSIVE FirstFreeSlot(_, _, _)
FirstFreeSlot(list, row, i) ==
    IF i >= RTTR_MAX_INHERIT_TYPES_COUNT THEN npos
    ELSE IF At(list, row + i) = m_invalid_id THEN row + i
    ELSE FirstFreeSlot(list, row, i + 1)

\* lines 990-1002: the derived type goes into the row of each base's raw type
RECURSIVE AddDerived(_, _, _, _, _)
AddDerived(list, rawList, src_type, base_classes, index) ==
    IF index >= Len(base_classes) THEN list
    ELSE LET row  == RTTR_MAX_INHERIT_TYPES_COUNT
                        * At(rawList, At(base_classes, index).m_base_type)
             slot == FirstFreeSlot(list, row, 0)
         IN  AddDerived(IF slot = npos THEN list ELSE Put(list, slot, src_type),
                        rawList, src_type, base_classes, index + 1)

\* register_base_class_info: the three tables after the call
register_base_class_info(src_type, raw_type, base_classes, rawList) ==
    LET sorted == sort_base_classes(remove_double_entries(base_classes))
        row    == RTTR_MAX_INHERIT_TYPES_COUNT * raw_type
        size   == row + RTTR_MAX_INHERIT_TYPES_COUNT
        bases0 == ResizeMax(m_base_class_list, size, m_invalid_id)
        convs0 == ResizeMax(m_conversion_list, size, 0)
        ders0  == ResizeMax(m_derived_class_list, size, m_invalid_id)
    IN  [base_class_list |->
             WriteRow(bases0, row,
                      [k \in 1..Len(sorted) |-> sorted[k].m_base_type], 0),
         conversion_list |->
             WriteRow(convs0, row,
                      [k \in 1..Len(sorted) |-> sorted[k].m_rttr_cast_func], 0),
         derived_class_list |-> AddDerived(ders0, rawList, src_type, sorted, 0),
         out_of_bounds |-> row + Len(sorted) > Len(bases0)]

\* the function pointers of a type are instantiated per type
derived_func_of(name) == <<"get_derived_info", name>>

variant_func_of(name) == <<"create_variant", name>>

\* register_type
RegisterType(name, raw_type, wrapped_type, array_raw_type, base_classes, info) ==
    LET existing == find_registered_name(name)
    IN  IF existing # m_invalid_id
        THEN /\ last_call' = Call("register_type_again", 0, name, base_classes, existing)
             /\ UNCHANGED <<typeVars, memberVars, itemVars, renames, threads>>
        ELSE LET id      == (m_type_id_counter + 1) % IdModulus
                 hash    == generate_hash(name)
                 custom  == derive_name(array_raw_type, name)
                 raw_id  == IF raw_type = 0 THEN id ELSE raw_type
                 rawList == Append(m_raw_type_list, raw_id)
                 funcs   == ResizeMax(m_get_derived_info_func_list, raw_id + 1, nullptr)
                 inherit == register_base_class_info(id, raw_id, base_classes, rawList)
             IN  /\ m_type_id_counter' = id
                 /\ m_orig_name_to_id' \in
                        sort_by_name(Append(m_orig_name_to_id,
                                            [m_id |-> id, m_hash_value |-> hash]))
                 /\ m_orig_names' = Append(m_orig_names, name)
                 /\ m_custom_name_to_id' \in
                        sort_by_name(Append(m_custom_name_to_id,
                                            [m_id |-> id,
                                             m_hash_value |-> generate_hash(custom)]))
                 /\ m_custom_names' = Append(m_custom_names, custom)
                 /\ m_type_list' = Append(m_type_list, id)
                 /\ m_raw_type_list' = rawList
                 /\ m_wrapped_type_list' = Append(m_wrapped_type_list, wrapped_type)
                 /\ m_array_raw_type_list' =
                        Append(m_array_raw_type_list,
                               IF array_raw_type = 0 THEN id ELSE array_raw_type)
                 /\ m_get_derived_info_func_list' =
                        Put(funcs, raw_id, derived_func_of(name))
                 /\ m_variant_create_func_list' =
                        Append(m_variant_create_func_list, variant_func_of(name))
                 /\ m_type_size' = Append(m_type_size, info.type_size)
                 /\ m_is_class_list' = Append(m_is_class_list, info.is_class)
                 /\ m_is_enum_list' = Append(m_is_enum_list, info.is_enum)
                 /\ m_is_array_list' = Append(m_is_array_list, info.is_array)
                 /\ m_is_pointer_list' = Append(m_is_pointer_list, info.is_pointer)
                 /\ m_is_arithmetic_list' =
                        Append(m_is_arithmetic_list, info.is_arithmetic)
                 /\ m_is_function_pointer_list' =
                        Append(m_is_function_pointer_list, info.is_function_pointer)
                 /\ m_is_member_object_pointer_list' =
                        Append(m_is_member_object_pointer_list,
                               info.is_member_object_pointer)
                 /\ m_is_member_function_pointer_list' =
                        Append(m_is_member_function_pointer_list,
                               info.is_member_function_pointer)
                 /\ m_pointer_dim_list' =
                        Append(m_pointer_dim_list, info.pointer_dimension)
                 /\ m_base_class_list' = inherit.base_class_list
                 /\ m_conversion_list' = inherit.conversion_list
                 /\ m_derived_class_list' = inherit.derived_class_list
                 /\ out_of_bounds' = (out_of_bounds \/ inherit.out_of_bounds)
                 /\ last_call' = Call("register_type", 0, name, base_classes, id)
                 /\ UNCHANGED <<memberVars, itemVars, renames, threads>>

(***************************************************************************)
(* register_custom_name and get_by_name.                                   *)
(***************************************************************************)
\* lines 651-659: one pass over the custom-name index; the names and hash
\* values of the entries whose array raw type is t are derived again, each
\* from the names as the earlier steps of the pass left them
RECURSIVE RenamePass(_, _, _, _, _)
RenamePass(names, index, t, raw_name, pos) ==
    IF pos >= Len(index) THEN [names |-> names, index |-> index]
    ELSE LET id == At(index, pos).m_id
         IN  IF At(m_array_raw_type_list, id) = t
             THEN LET derived == derive_name3(At(names, id), raw_name, At(names, t))
                  IN  RenamePass(Put(names, id, derived),
                                 Put(index, pos,
                                     [m_id |-> id,
                                      m_hash_value |-> generate_hash(derived)]),
                                 t, raw_name, pos + 1)
             ELSE RenamePass(names, index, t, raw_name, pos + 1)

register_custom_name(t, custom_name) ==
    RenamePass(Put(m_custom_names, t, custom_name), m_custom_name_to_id, t,
               normalize_orig_name(At(m_orig_names, t)), 0)

\* a renaming that also re-hashes the entry of t in the original-name index
RegisterCustomNameBothIndexes(t, custom_name) ==
    /\ last_call' = Call("register_custom_name", t, custom_name, <<>>, 0)
    /\ renames' = renames + 1
    /\ UNCHANGED threads
    /\ IF ~is_valid(t)
       THEN UNCHANGED <<typeVars, memberVars, itemVars>>
       ELSE LET pass == register_custom_name(t, custom_name)
            IN  /\ m_custom_names' = pass.names
                /\ m_custom_name_to_id' \in sort_by_name(pass.index)
                /\ m_orig_name_to_id' \in sort_by_name(
                       [k \in 1..Len(m_orig_name_to_id) |->
                           IF m_orig_name_to_id[k].m_id = t
                           THEN [m_id |-> t,
                                 m_hash_value |-> generate_hash(custom_name)]
                           ELSE m_orig_name_to_id[k]])
                /\ UNCHANGED <<m_type_id_counter, m_orig_names,
                               m_type_list, attrVars, inheritVars, memberVars,
                               itemVars>>

RegisterCustomName(t, custom_name) ==
    /\ last_call' = Call("register_custom_name", t, custom_name, <<>>, 0)
    /\ renames' = renames + 1
    /\ UNCHANGED threads
    /\ IF ~is_valid(t)
       THEN UNCHANGED <<typeVars, memberVars, itemVars>>
       ELSE LET pass == register_custom_name(t, custom_name)
            IN  /\ m_custom_names' = pass.names
                /\ m_custom_name_to_id' \in sort_by_name(pass.index)
                /\ UNCHANGED <<m_type_id_counter, m_orig_names, m_orig_name_to_id,
                               m_type_list, attrVars, inheritVars, memberVars,
                               itemVars>>

\* a lookup by the hash value alone: the first entry of the hash value
get_by_name_by_hash(name) ==
    LET hash_value == generate_hash(name)
        pos        == lower_bound(HashKeys(m_custom_name_to_id), hash_value)
    IN  IF pos < Len(m_custom_name_to_id)
           /\ At(m_custom_name_to_id, pos).m_hash_value = hash_value
        THEN At(m_custom_name_to_id, pos).m_id
        ELSE m_invalid_id

get_by_name(name) == FindName(m_custom_name_to_id, m_custom_names, name)

(***************************************************************************)
(* Properties.                                                             *)
(***************************************************************************)
\* a property, method or constructor item: the name and the parameter types
\* of the wrapper, and the type it was registered for
Item(name, params, t) == [name |-> name, params |-> params, declaring_type |-> t]

\* detail::create_item<T>(): the invalid item
InvalidItem == Item("", <<>>, m_invalid_id)

\* unordered_map: find, and operator[] / assignment
MapGet(map, key) == IF key \in DOMAIN map THEN map[key] ELSE <<>>

MapPut(map, key, value) ==
    [k \in DOMAIN map \cup {key} |-> IF k = key THEN value ELSE map[k]]

\* std::find_if over a vector of items: the first item of that name
RECURSIVE FirstNamed(_, _)
FirstNamed(vec, name) ==
    IF vec = <<>> THEN InvalidItem
    ELSE IF Head(vec).name = name THEN Head(vec)
    ELSE FirstNamed(Tail(vec), name)

\* a lookup that takes the first item of the type, whatever its name
get_class_item_first(t, name, item_map) ==
    IF MapGet(item_map, t) = <<>> THEN InvalidItem ELSE Head(MapGet(item_map, t))

get_class_item(t, name, item_map) == FirstNamed(MapGet(item_map, t), name)

get_type_property(t, name) == get_class_item(t, name, m_type_property_map)

get_class_property(t, name) == get_class_item(t, name, m_class_property_map)

get_class_properties(t) == MapGet(m_class_property_map, t)

get_global_property(name) == FirstNamed(m_global_properties, name)

\* lines 169-178: the items registered for the base classes of t, one base
\* after the other
RECURSIVE ItemsOfBases(_, _)
ItemsOfBases(bases, type_map) ==
    IF bases = <<>> THEN <<>>
    ELSE MapGet(type_map, Head(bases)) \o ItemsOfBases(Tail(bases), type_map)

\* a class list with the items of the class in front of those of its bases
update_class_list_own_first(t, type_map, class_map) ==
    MapPut(class_map, t,
           MapGet(type_map, t) \o ItemsOfBases(get_base_classes(t), type_map))

\* lines 163-184: the class list of t alone is built again
update_class_list_of(t, type_map, class_map) ==
    MapPut(class_map, t,
           ItemsOfBases(get_base_classes(t), type_map) \o MapGet(type_map, t))

\* a registry that builds the class list of t and of no derived class
update_class_list_not_derived(t, type_map, class_map) ==
    update_class_list_of(t, type_map, class_map)

\* update_class_list: the class list of t, then those of its derived classes
RECURSIVE update_class_list(_, _, _)
RECURSIVE UpdateDerivedClasses(_, _, _)
update_class_list(t, type_map, class_map) ==
    UpdateDerivedClasses(get_derived_classes(t), type_map,
                         update_class_list_of(t, type_map, class_map))

UpdateDerivedClasses(derived, type_map, class_map) ==
    IF derived = <<>> THEN class_map
    ELSE UpdateDerivedClasses(Tail(derived), type_map,
                              update_class_list(Head(derived), type_map, class_map))

\* register_property
RegisterProperty(t, name) ==
    LET prop == Item(name, <<>>, t)
    IN  IF ~is_valid(t)
        THEN /\ last_call' = Call("register_property", t, name, <<>>, FALSE)
             /\ UNCHANGED <<typeVars, memberVars, itemVars, renames, threads>>
        ELSE IF is_class(t)
        THEN IF get_type_property(t, name) # InvalidItem
             THEN /\ last_call' = Call("register_property", t, name, <<>>, FALSE)
                  /\ UNCHANGED <<typeVars, memberVars, itemVars, renames, threads>>
             ELSE LET type_map == MapPut(m_type_property_map, t,
                                         Append(MapGet(m_type_property_map, t), prop))
                  IN  /\ m_type_property_map' = type_map
                      /\ m_class_property_map' =
                             update_class_list(t, type_map, m_class_property_map)
                      /\ last_call' = Call("register_property", t, name, <<>>, TRUE)
                      /\ UNCHANGED <<typeVars, m_global_properties, methodVars,
                                     ctorVars, itemVars, renames, threads>>
        ELSE IF get_global_property(name) # InvalidItem
             THEN /\ last_call' = Call("register_property", t, name, <<>>, FALSE)
                  /\ UNCHANGED <<typeVars, memberVars, itemVars, renames, threads>>
             ELSE /\ m_global_properties' = Append(m_global_properties, prop)
                  /\ last_call' = Call("register_property", t, name, <<>>, TRUE)
                  /\ UNCHANGED <<typeVars, m_type_property_map, m_class_property_map,
                                 methodVars, ctorVars, itemVars, renames, threads>>

(***************************************************************************)
(* Constructors and destructors.                                           *)
(***************************************************************************)
\* compare_with_type_list::compare: the same number of types, pairwise equal
RECURSIVE ComparePairwise(_, _)
ComparePairwise(params, types) ==
    IF params = <<>> THEN TRUE
    ELSE IF Head(params) # Head(types) THEN FALSE
    ELSE ComparePairwise(Tail(params), Tail(types))

compare_with_type_list(params, arg_types) ==
    IF Len(params) # Len(arg_types) THEN FALSE
    ELSE ComparePairwise(params, arg_types)

\* the first item of a vector whose parameters match the list of types
RECURSIVE FirstMatching(_, _)
FirstMatching(vec, arg_type_list) ==
    IF vec = <<>> THEN InvalidItem
    ELSE IF compare_with_type_list(Head(vec).params, arg_type_list) THEN Head(vec)
    ELSE FirstMatching(Tail(vec), arg_type_list)

\* the constructor that is first in the list of the type
get_first_constructor(t, arg_type_list) ==
    IF MapGet(m_type_ctor_map, t) = <<>> THEN InvalidItem
    ELSE Head(MapGet(m_type_ctor_map, t))

\* get_constructor(t, arg_type_list)
get_constructor(t, arg_type_list) ==
    FirstMatching(MapGet(m_type_ctor_map, t), arg_type_list)

\* get_constructors(t)
get_constructors(t) == MapGet(m_type_ctor_map, t)

\* get_constructor(t): the front of the list of the type
get_constructor_front(t) ==
    IF t \in DOMAIN m_type_ctor_map /\ m_type_ctor_map[t] # <<>>
    THEN Head(m_type_ctor_map[t])
    ELSE InvalidItem

\* a registration that hands the constructor on to the classes derived from t
RECURSIVE AppendToEach(_, _, _)
AppendToEach(map, types, item) ==
    IF types = <<>> THEN map
    ELSE AppendToEach(MapPut(map, Head(types), Append(MapGet(map, Head(types)), item)),
                      Tail(types), item)

RegisterConstructorFlattened(t, params) ==
    /\ last_call' = Call("register_constructor", t, "", <<>>, is_valid(t))
    /\ IF ~is_valid(t)
       THEN UNCHANGED <<typeVars, memberVars, itemVars, renames, threads>>
       ELSE /\ m_type_ctor_map' =
                   AppendToEach(m_type_ctor_map,
                                <<t>> \o DerivedClassesIn(m_derived_class_list,
                                                          m_raw_type_list, t),
                                Item("", params, t))
            /\ UNCHANGED <<typeVars, propertyVars, methodVars, m_type_dtor_map,
                           itemVars, renames, threads>>

\* register_constructor
RegisterConstructor(t, params) ==
    /\ last_call' = Call("register_constructor", t, "", <<>>, is_valid(t))
    /\ IF ~is_valid(t)
       THEN UNCHANGED <<typeVars, memberVars, itemVars, renames, threads>>
       ELSE /\ m_type_ctor_map' =
                   MapPut(m_type_ctor_map, t,
                          Append(MapGet(m_type_ctor_map, t), Item("", params, t)))
            /\ UNCHANGED <<typeVars, propertyVars, methodVars, m_type_dtor_map,
                           itemVars, renames, threads>>

\* get_destructor
get_destructor(t) ==
    IF t \in DOMAIN m_type_dtor_map THEN m_type_dtor_map[t] ELSE InvalidItem

\* a table in which the destructor handed in last is the one kept
insert_or_assign(map, key, value) == MapPut(map, key, value)

\* unordered_map::insert: an entry that is there is kept
insert(map, key, value) == IF key \in DOMAIN map THEN map ELSE MapPut(map, key, value)

\* register_destructor: unordered_map::insert keeps an entry that is there;
\* the validity of t is not looked at
RegisterDestructor(t, wrapper) ==
    LET inserted == t \notin DOMAIN m_type_dtor_map
    IN  /\ last_call' = Call("register_destructor", t, wrapper, <<>>, inserted)
        /\ m_type_dtor_map' = insert(m_type_dtor_map, t, Item(wrapper, <<>>, t))
        /\ UNCHANGED <<typeVars, propertyVars, methodVars, m_type_ctor_map,
                       itemVars, renames, threads>>

(***************************************************************************)
(* Methods.                                                                *)
(***************************************************************************)
\* the first item of a vector with the name and the parameter types
RECURSIVE FirstNamedMatching(_, _, _)
FirstNamedMatching(vec, name, type_list) ==
    IF vec = <<>> THEN InvalidItem
    ELSE IF /\ Head(vec).name = name
            /\ compare_with_type_list(Head(vec).params, type_list)
         THEN Head(vec)
    ELSE FirstNamedMatching(Tail(vec), name, type_list)

\* get_type_method(t, name) and get_class_method(t, name)
get_type_method_named(t, name) == get_class_item(t, name, m_type_method_map)

get_class_method_named(t, name) == get_class_item(t, name, m_class_method_map)

\* a lookup that stops at the first method of the name
get_type_method_by_name_only(t, name, type_list) == get_type_method_named(t, name)

\* get_type_method(t, name, type_list)
get_type_method(t, name, type_list) ==
    FirstNamedMatching(MapGet(m_type_method_map, t), name, type_list)

\* get_class_method(t, name, type_list)
get_class_method(t, name, type_list) ==
    FirstNamedMatching(MapGet(m_class_method_map, t), name, type_list)

\* get_class_methods(t)
get_class_methods(t) == MapGet(m_class_method_map, t)

\* flat_multimap::find: the index of the first entry of the key, or npos
MultimapFind(vec, name) ==
    LET hits == {k \in 0..(Len(vec) - 1) : At(vec, k).name = name}
    IN  IF hits = {} THEN npos ELSE CHOOSE k \in hits : \A j \in hits : k <= j

\* flat_multimap::insert: the entries of one key are neighbours, in the
\* order of their insertion
MultimapInsert(vec, item) ==
    LET hits == {k \in 1..Len(vec) : vec[k].name = item.name}
    IN  IF hits = {} THEN Append(vec, item)
        ELSE LET last == CHOOSE k \in hits : \A j \in hits : k >= j
             IN  SubSeq(vec, 1, last) \o <<item>> \o SubSeq(vec, last + 1, Len(vec))

\* get_global_method(name)
get_global_method_named(name) ==
    IF MultimapFind(m_global_methods, name) = npos THEN InvalidItem
    ELSE At(m_global_methods, MultimapFind(m_global_methods, name))

\* lines 441-451: from the entry found on, while the name is the name asked
RECURSIVE ScanGlobalMethods(_, _, _, _)
ScanGlobalMethods(vec, itr, name, type_list) ==
    IF itr >= Len(vec) THEN InvalidItem
    ELSE IF At(vec, itr).name # name THEN InvalidItem
    ELSE IF compare_with_type_list(At(vec, itr).params, type_list) THEN At(vec, itr)
    ELSE ScanGlobalMethods(vec, itr + 1, name, type_list)

\* a lookup that stops at the first global method of the name
get_global_method_by_name_only(name, type_list) == get_global_method_named(name)

\* get_global_method(name, type_list)
get_global_method(name, type_list) ==
    IF MultimapFind(m_global_methods, name) = npos THEN InvalidItem
    ELSE ScanGlobalMethods(m_global_methods, MultimapFind(m_global_methods, name),
                           name, type_list)

\* register_method
RegisterMethod(t, name, params) ==
    LET meth == Item(name, params, t)
    IN  IF ~is_valid(t)
        THEN /\ last_call' = Call("register_method", t, name, params, FALSE)
             /\ UNCHANGED <<typeVars, memberVars, itemVars, renames, threads>>
        ELSE IF is_class(t)
        THEN IF get_type_method(t, name, params) # InvalidItem
             THEN /\ last_call' = Call("register_method", t, name, params, FALSE)
                  /\ UNCHANGED <<typeVars, memberVars, itemVars, renames, threads>>
             ELSE LET type_map == MapPut(m_type_method_map, t,
                                         Append(MapGet(m_type_method_map, t), meth))
                  IN  /\ m_type_method_map' = type_map
                      /\ m_class_method_map' =
                             update_class_list(t, type_map, m_class_method_map)
                      /\ last_call' = Call("register_method", t, name, params, TRUE)
                      /\ UNCHANGED <<typeVars, propertyVars, m_global_methods,
                                     ctorVars, itemVars, renames, threads>>
        ELSE IF get_global_method(name, params) # InvalidItem
             THEN /\ last_call' = Call("register_method", t, name, params, FALSE)
                  /\ UNCHANGED <<typeVars, memberVars, itemVars, renames, threads>>
             ELSE /\ m_global_methods' = MultimapInsert(m_global_methods, meth)
                  /\ last_call' = Call("register_method", t, name, params, TRUE)
                  /\ UNCHANGED <<typeVars, propertyVars, m_type_method_map,
                                 m_class_method_map, ctorVars, itemVars, renames, threads>>

(***************************************************************************)
(* Metadata.                                                               *)
(***************************************************************************)
\* variant(): the invalid value
InvalidVariant == 0

\* get_item_by_type: the data of the first entry of the id, or nullptr
get_item_by_type(t, vec) ==
    LET pos == lower_bound(IdKeys(vec), t)
    IN  IF pos < Len(vec) /\ At(vec, pos).m_id = t THEN At(vec, pos).m_data
        ELSE nullptr

get_metadata_list(t) == get_item_by_type(t, m_metadata_type_list)

MetaKeys(data) == [k \in 1..Len(data) |-> data[k].key]

\* get_metadata(key, data): binary search by key
get_metadata_in(key, data) ==
    LET pos == lower_bound(MetaKeys(data), key)
    IN  IF pos < Len(data) /\ At(data, pos).key = key THEN At(data, pos).value
        ELSE InvalidVariant

\* get_metadata(t, key)
get_metadata(t, key) ==
    LET meta_vec == get_metadata_list(t)
    IN  IF meta_vec = nullptr THEN InvalidVariant ELSE get_metadata_in(key, meta_vec)

\* lines 683-687: the entries whose key is not found are appended
RECURSIVE InsertNewEntries(_, _)
InsertNewEntries(meta_vec_ref, data) ==
    IF data = <<>> THEN meta_vec_ref
    ELSE InsertNewEntries(
             IF get_metadata_in(Head(data).key, meta_vec_ref) = InvalidVariant
             THEN Append(meta_vec_ref, Head(data))
             ELSE meta_vec_ref,
             Tail(data))

\* std::sort(..., metadata::order_by_key()): an ascending arrangement
RECURSIVE SortByKey(_)
SortByKey(data) ==
    IF data = <<>> THEN <<>>
    ELSE LET k == CHOOSE i \in 1..Len(data) :
                      \A j \in 1..Len(data) :
                          \/ data[i].key < data[j].key
                          \/ data[i].key = data[j].key /\ i <= j
         IN  <<data[k]>> \o SortByKey(SubSeq(data, 1, k - 1)
                                      \o SubSeq(data, k + 1, Len(data)))

\* lines 680-689: meta_vec_ref is declared auto, a copy of the vector of the
\* type; the entries are inserted into the copy and the copy is sorted
meta_vec_ref_at_return(meta_vec, data) ==
    SortByKey(InsertNewEntries(meta_vec, data))

\* the vector of the type when register_metadata returns: the copy is
\* destroyed, the vector is as lines 673-678 left it
metadata_list_at_return(meta_vec, data) == meta_vec

\* the first value handed in for each key, and whether it came alone
RECURSIVE NoteFirstValues(_, _, _)
NoteFirstValues(first, data, alone) ==
    IF data = <<>> THEN first
    ELSE NoteFirstValues(IF Head(data).key \in DOMAIN first THEN first
                         ELSE MapPut(first, Head(data).key,
                                     [value |-> Head(data).value, alone |-> alone]),
                         Tail(data), alone)

\* register_metadata
RegisterMetadata(t, data) ==
    /\ last_call' = Call("register_metadata", t, "", data,
                         is_valid(t) /\ data # <<>>)
    /\ IF ~is_valid(t) \/ data = <<>>
       THEN UNCHANGED <<typeVars, memberVars, itemVars, renames, threads>>
       ELSE LET meta_vec == get_metadata_list(t)
                created  == IF meta_vec = nullptr THEN data ELSE meta_vec
                list     == IF meta_vec = nullptr
                            THEN StableInsertById(m_metadata_type_list,
                                                  [m_id |-> t, m_data |-> created])
                            ELSE m_metadata_type_list
            IN  /\ m_metadata_type_list' =
                       [k \in 1..Len(list) |->
                           IF list[k].m_id = t
                           THEN [m_id |-> t,
                                 m_data |-> metadata_list_at_return(created, data)]
                           ELSE list[k]]
                /\ metadata_passed' =
                       MapPut(metadata_passed, t,
                              NoteFirstValues(MapGet(metadata_passed, t), data,
                                              Len(data) = 1))
                /\ UNCHANGED <<typeVars, memberVars, m_enumeration_list,
                               m_type_converter_list, m_type_comparator_list,
                               renames, threads>>

(***************************************************************************)
(* Enumerations, converters and comparators.                               *)
(***************************************************************************)
\* get_enumeration
get_enumeration(t) == get_item_by_type(t, m_enumeration_list)

\* register_enumeration: register_item_type on m_enumeration_list
RegisterEnumeration(t, wrapper) ==
    /\ last_call' = Call("register_enumeration", t, wrapper, <<>>, is_valid(t))
    /\ m_enumeration_list' =
           IF ~is_valid(t) THEN m_enumeration_list
           ELSE StableInsertById(m_enumeration_list, [m_id |-> t, m_data |-> wrapper])
    /\ UNCHANGED <<typeVars, memberVars, m_metadata_type_list, metadata_passed,
                   m_type_converter_list, m_type_comparator_list, renames, threads>>

\* type_converter_base: the target type and the identity of the wrapper
Converter(target_type, wrapper) == [m_target_type |-> target_type, wrapper |-> wrapper]

\* the null pointer to a converter
null_converter == Converter(m_invalid_id, nullptr)

\* lines 748-756: from the lower bound on, while the id is the source id
RECURSIVE ScanConverters(_, _, _, _)
ScanConverters(list, itr, src_id, target_id) ==
    IF itr >= Len(list) THEN null_converter
    ELSE IF At(list, itr).m_id # src_id THEN null_converter
    ELSE IF At(list, itr).m_data.m_target_type = target_id THEN At(list, itr).m_data
    ELSE ScanConverters(list, itr + 1, src_id, target_id)

\* the lookup in a converter table
GetConverterIn(list, source_type, target_type) ==
    ScanConverters(list, lower_bound(IdKeys(list), source_type),
                   source_type, target_type)

\* a lookup that takes the first converter of the source type
get_converter_of_source(source_type, target_type) ==
    LET pos == lower_bound(IdKeys(m_type_converter_list), source_type)
    IN  IF pos < Len(m_type_converter_list)
           /\ At(m_type_converter_list, pos).m_id = source_type
        THEN At(m_type_converter_list, pos).m_data
        ELSE null_converter

\* get_converter
get_converter(source_type, target_type) ==
    GetConverterIn(m_type_converter_list, source_type, target_type)

\* register_converter
RegisterConverter(t, converter) ==
    LET accepted == is_valid(t) /\ get_converter(t, converter.m_target_type) = null_converter
    IN  /\ last_call' = Call("register_converter", t, "", converter, accepted)
        /\ m_type_converter_list' =
               IF accepted
               THEN StableInsertById(m_type_converter_list,
                                     [m_id |-> t, m_data |-> converter])
               ELSE m_type_converter_list
        /\ UNCHANGED <<typeVars, memberVars, m_enumeration_list, m_metadata_type_list,
                       metadata_passed, m_type_comparator_list, renames, threads>>

\* the lookup in a comparator table
GetComparatorIn(list, t) ==
    LET pos == lower_bound(IdKeys(list), t)
    IN  IF pos < Len(list) /\ At(list, pos).m_id = t THEN At(list, pos).m_data
        ELSE nullptr

\* get_comparator
get_comparator(t) == GetComparatorIn(m_type_comparator_list, t)

\* a table in which the new entry goes in front of the entries of its id
InsertFirstById(vec, item) ==
    LET pos == lower_bound(IdKeys(vec), item.m_id)
    IN  SubSeq(vec, 1, pos) \o <<item>> \o SubSeq(vec, pos + 1, Len(vec))

\* push_back and std::stable_sort by id
InsertComparator(vec, item) == StableInsertById(vec, item)

\* register_comparator
RegisterComparator(t, comparator) ==
    /\ last_call' = Call("register_comparator", t, comparator, <<>>, is_valid(t))
    /\ m_type_comparator_list' =
           IF ~is_valid(t) THEN m_type_comparator_list
           ELSE InsertComparator(m_type_comparator_list,
                                 [m_id |-> t, m_data |-> comparator])
    /\ UNCHANGED <<typeVars, memberVars, m_enumeration_list, m_metadata_type_list,
                   metadata_passed, m_type_converter_list, renames, threads>>

(***************************************************************************)
(* The calls explored.                                                     *)
(***************************************************************************)
\* the classification a call of register_type passes for a type
ClassInfo ==
    [type_size |-> 8, is_class |-> TRUE, is_enum |-> FALSE, is_array |-> FALSE,
     is_pointer |-> FALSE, is_arithmetic |-> FALSE, is_function_pointer |-> FALSE,
     is_member_object_pointer |-> FALSE, is_member_function_pointer |-> FALSE,
     pointer_dimension |-> 0]

PointerInfo ==
    [type_size |-> 4, is_class |-> FALSE, is_enum |-> FALSE, is_array |-> FALSE,
     is_pointer |-> TRUE, is_arithmetic |-> FALSE, is_function_pointer |-> FALSE,
     is_member_object_pointer |-> FALSE, is_member_function_pointer |-> FALSE,
     pointer_dimension |-> 1]

TypeInfos == {ClassInfo, PointerInfo}

\* the flags follow from the type: a name with a '*' is a pointer
TypeInfoOf(name) == IF "*" \in Range(name) THEN PointerInfo ELSE ClassInfo

\* original names; "A *" and "AB" have the same hash value
TypeNames == {<<"A">>, <<"B">>, <<"A", " ", "*">>, <<"A", "B">>}

\* custom names: "X" collides with "AB"; "AB" contains the original name "A"
\* and is the original name of another type
CustomNames == {<<"X">>, <<"A", "B">>}

RegisteredIds == 1..m_type_id_counter

AnyIds == 0..m_type_id_counter

\* a first registration: the classification follows from the type, the raw
\* type was registered before, and the array raw type is the type itself or
\* its raw type
RegisterNewType ==
    \E name \in TypeNames, raw_type \in AnyIds :
        \E array_raw_type \in {0, raw_type} :
            /\ find_registered_name(name) = m_invalid_id
            /\ m_type_id_counter < MaxTypes
            /\ RegisterType(name, raw_type, 0, array_raw_type, <<>>,
                            TypeInfoOf(name))

\* a registered name is registered again, with any arguments
RegisterTypeAgain ==
    \E name \in TypeNames, raw_type \in {0, m_type_id_counter}, info \in TypeInfos :
        /\ find_registered_name(name) # m_invalid_id
        /\ RegisterType(name, raw_type, raw_type, raw_type,
                        IF raw_type = 0 THEN <<>>
                        ELSE <<[m_base_type |-> raw_type, m_rttr_cast_func |-> 1]>>,
                        info)

RenameType ==
    \E t \in AnyIds, custom_name \in CustomNames :
        /\ renames < MaxRenames
        /\ RegisterCustomName(t, custom_name)

Next == RegisterNewType \/ RegisterTypeAgain \/ RenameType

Spec == Init /\ [][Next]_vars

(***************************************************************************)
(* Properties of registration and naming.                                  *)
(***************************************************************************)
\* the ids a name is stored under as an original name
IdsOfName(names, name) == {i \in 1..(Len(names) - 1) : At(names, i) = name}

\* C1: registering a name that is already registered returns the id the
\* first registration returned (a first registration returns a new id, under
\* which the name is stored from then on) and changes no table of the
\* registry, whatever the other arguments are.
C1_ReRegistrationIdempotent ==
    [][last_call'.op \in {"register_type", "register_type_again"} =>
           LET name == last_call'.name
           IN  /\ IdsOfName(m_orig_names, name) # {} =>
                      /\ IdsOfName(m_orig_names, name) = {last_call'.ret}
                      /\ registry' = registry
               /\ IdsOfName(m_orig_names, name) = {} =>
                      /\ last_call'.ret = m_type_id_counter + 1
                      /\ IdsOfName(m_orig_names', name) = {last_call'.ret}
               /\ \A n \in TypeNames :
                      IdsOfName(m_orig_names, n) \subseteq IdsOfName(m_orig_names', n)
      ]_vars

\* C1 witness: a registered name was registered again with a raw type and a
\* base class the first registration did not have, and got its old id back
C1_Witness ==
    /\ last_call.op = "register_type_again"
    /\ last_call.arg # <<>>
    /\ last_call.ret \in 1..(m_type_id_counter - 1)
    /\ get_base_classes(last_call.ret) = <<>>
    /\ get_raw_type(last_call.ret) = last_call.ret

\* C4 (as claimed): after registerCustomName(t, n) on a valid type t,
\* getByName(n) returns t.
C4_CustomNameFound ==
    (last_call.op = "register_custom_name" /\ is_valid(last_call.t))
        => get_by_name(last_call.name) = last_call.t

\* C5 (as claimed): when getByName of the original name of t returned t,
\* it still returns t after registerCustomName(t, n).
C5_OriginalNameStillFound ==
    [][(/\ last_call'.op = "register_custom_name"
        /\ is_valid(last_call'.t)
        /\ get_by_name(At(m_orig_names, last_call'.t)) = last_call'.t)
           => FindName(m_custom_name_to_id', m_custom_names',
                       At(m_orig_names, last_call'.t)) = last_call'.t
      ]_vars

\* C5 (amended): registerCustomName leaves the original-name index and the
\* original names as they were, so the lookup register_name makes still
\* finds every registered type under its original name; getByName searches
\* the custom names only: what it returns is 0 or a type whose custom name
\* is the name asked for.
C5_OriginalIndexKept ==
    [][last_call'.op = "register_custom_name" =>
           /\ m_orig_name_to_id' = m_orig_name_to_id
           /\ m_orig_names' = m_orig_names
           /\ \A t \in RegisteredIds :
                  FindName(m_orig_name_to_id', m_orig_names', At(m_orig_names, t)) = t
           /\ \A n \in TypeNames \cup CustomNames :
                  LET r == FindName(m_custom_name_to_id', m_custom_names', n)
                  IN  r # m_invalid_id => At(m_custom_names', r) = n
      ]_vars

\* C5 witness: a type was renamed; getByName no longer finds it under its
\* original name, the lookup of register_name still does
C5_Witness ==
    /\ last_call.op = "register_custom_name"
    /\ is_valid(last_call.t)
    /\ get_by_name(At(m_orig_names, last_call.t)) = m_invalid_id
    /\ find_registered_name(At(m_orig_names, last_call.t)) = last_call.t
    /\ At(m_custom_names, last_call.t) = last_call.name

(***************************************************************************)
(* Inheritance: classes registered with lists of base classes.             *)
(***************************************************************************)
\* the names of the classes, in the order they are registered
ClassNames ==
    << <<"A">>, <<"B">>, <<"X">>, <<"A", "A">>, <<"B", "B">>, <<"X", "X">> >>

\* the lists of at most MaxBases entries over the base types S; every entry
\* has a cast function of its own
BaseLists(S) ==
    UNION {{[k \in 1..n |-> [m_base_type |-> f[k], m_rttr_cast_func |-> k]] :
                f \in [1..n -> S]} : n \in 0..MaxBases}

ClassIds == {t \in RegisteredIds : is_class(t)}

\* the classes handed in as bases
RootIds == {t \in ClassIds : t <= MaxRoots}

\* a class is registered; its bases are classes registered before it
RegisterClass ==
    \E base_classes \in BaseLists(RootIds) :
        /\ m_type_id_counter < MaxClasses
        /\ RegisterType(ClassNames[m_type_id_counter + 1], 0, 0, 0, base_classes,
                        ClassInfo)

NextInherit == RegisterClass

SpecInherit == Init /\ [][NextInherit]_vars

\* the MAX slots of the row of type t
RowOf(list, t) ==
    [i \in 1..RTTR_MAX_INHERIT_TYPES_COUNT |->
        At(list, RTTR_MAX_INHERIT_TYPES_COUNT * t + i - 1)]

Count(row, x) == Cardinality({i \in DOMAIN row : row[i] = x})

BasesPassed(base_classes) ==
    {base_classes[k].m_base_type : k \in DOMAIN base_classes}

PassedTwice(base_classes) ==
    {b \in BasesPassed(base_classes) :
        Cardinality({k \in DOMAIN base_classes : base_classes[k].m_base_type = b}) > 1}

\* C8 (as claimed): a base type that occurs more than once in the base list
\* of a new type is in the new type's base row exactly once, and the new
\* type is in that base's derived row exactly once.
C8_DuplicateBaseOnce ==
    last_call.op = "register_type" =>
        \A b \in PassedTwice(last_call.arg) :
            /\ Count(RowOf(m_base_class_list, last_call.ret), b) = 1
            /\ Count(RowOf(m_derived_class_list, get_raw_type(b)), last_call.ret) = 1

\* C8 (amended): such a base type is in the new type's base row at most
\* once, and the new type is in the base's derived row at most once; it is
\* there exactly once when the row has room: the list names at most
\* RTTR_MAX_INHERIT_TYPES_COUNT different bases, and the derived row of the
\* base is not filled up by other types.
C8_DuplicateBaseCollapsed ==
    last_call.op = "register_type" =>
        \A b \in PassedTwice(last_call.arg) :
            LET baseRow    == RowOf(m_base_class_list, last_call.ret)
                derivedRow == RowOf(m_derived_class_list, get_raw_type(b))
                others     == {i \in DOMAIN derivedRow :
                                  derivedRow[i] \notin {m_invalid_id, last_call.ret}}
            IN  /\ Count(baseRow, b) <= 1
                /\ Count(derivedRow, last_call.ret) <= 1
                /\ Cardinality(BasesPassed(last_call.arg))
                       <= RTTR_MAX_INHERIT_TYPES_COUNT => Count(baseRow, b) = 1
                /\ Cardinality(others) < RTTR_MAX_INHERIT_TYPES_COUNT
                       => Count(derivedRow, last_call.ret) = 1

\* C8 witness: a class was registered with the same base twice; both rows
\* hold the pair once, the derived row behind another derived type
C8_Witness ==
    /\ last_call.op = "register_type"
    /\ \E b \in PassedTwice(last_call.arg) :
           /\ Count(RowOf(m_base_class_list, last_call.ret), b) = 1
           /\ Count(RowOf(m_derived_class_list, b), last_call.ret) = 1
           /\ get_derived_classes(b) # <<last_call.ret>>

(***************************************************************************)
(* Classes with properties.                                                *)
(***************************************************************************)
PropertyNames == {"p"}

\* the base lists that fit a row: different classes, in ascending order
RECURSIVE AscendingList(_)
AscendingList(S) ==
    IF S = {} THEN <<>>
    ELSE LET low == CHOOSE b \in S : \A c \in S : b <= c
         IN  <<[m_base_type |-> low, m_rttr_cast_func |-> low]>>
                 \o AscendingList(S \ {low})

FittingBaseLists(S) ==
    {AscendingList(B) : B \in {C \in SUBSET S :
                                  Cardinality(C) <= RTTR_MAX_INHERIT_TYPES_COUNT}}

RegisterMemberClass ==
    \E base_classes \in FittingBaseLists(RootIds) :
        /\ m_type_id_counter < MaxMemberTypes
        /\ RegisterType(ClassNames[m_type_id_counter + 1], 0, 0, 0, base_classes,
                        ClassInfo)

RegisterClassProperty ==
    \E t \in RegisteredIds, name \in PropertyNames : RegisterProperty(t, name)

NextMembers == RegisterMemberClass \/ RegisterClassProperty

SpecMembers == Init /\ [][NextMembers]_vars

NamesOf(items) == {items[k].name : k \in DOMAIN items}

\* C2 (as claimed): the class properties of a class whose base row is
\* [B1, B2] are the properties of B1, then those of B2, then its own.
C2_FlattenedProperties ==
    \A t \in ClassIds :
        LET bases == get_base_classes(t)
        IN  Len(bases) = 2 =>
                get_class_properties(t) =
                    MapGet(m_type_property_map, bases[1])
                        \o MapGet(m_type_property_map, bases[2])
                        \o MapGet(m_type_property_map, t)

\* the types that have B in their base row
TypesWithBase(b) ==
    {d \in RegisteredIds : b \in Range(get_base_classes(d))}

\* C3 (as claimed): once registerProperty(B, X) is accepted, every type D
\* registered with base B has X among its class properties, and a name
\* that is among the class properties of a type stays there.
C3_PropagatesToAllDerived ==
    [][/\ (last_call'.op = "register_property" /\ last_call'.ret = TRUE
              /\ is_class(last_call'.t)) =>
              \A d \in TypesWithBase(last_call'.t) :
                  /\ last_call'.name \in NamesOf(MapGet(m_class_property_map', d))
                  /\ FirstNamed(MapGet(m_class_property_map', d), last_call'.name).name
                         = last_call'.name
       /\ \A d \in RegisteredIds :
              NamesOf(get_class_properties(d))
                  \subseteq NamesOf(MapGet(m_class_property_map', d))
      ]_vars

\* C3 (amended): the same for every type D that has B in its base row and
\* is recorded in the derived row of B, which holds the first
\* RTTR_MAX_INHERIT_TYPES_COUNT types registered with base B.
C3_PropagatesToRecordedDerived ==
    [][/\ (last_call'.op = "register_property" /\ last_call'.ret = TRUE
              /\ is_class(last_call'.t)) =>
              \A d \in TypesWithBase(last_call'.t)
                          \cap Range(get_derived_classes(last_call'.t)) :
                  /\ last_call'.name \in NamesOf(MapGet(m_class_property_map', d))
                  /\ FirstNamed(MapGet(m_class_property_map', d), last_call'.name).name
                         = last_call'.name
       /\ \A d \in RegisteredIds :
              NamesOf(get_class_properties(d))
                  \subseteq NamesOf(MapGet(m_class_property_map', d))
      ]_vars

\* C3 witness: a property was accepted on a class with two derived classes
\* registered before; both have it among their class properties, from the base
C3_Witness ==
    /\ last_call.op = "register_property"
    /\ last_call.ret = TRUE
    /\ Len(get_derived_classes(last_call.t)) = 2
    /\ \A d \in Range(get_derived_classes(last_call.t)) :
           get_class_properties(d) = <<Item(last_call.name, <<>>, last_call.t)>>

(***************************************************************************)
(* Types with constructors.                                               *)
(***************************************************************************)
\* the parameter lists of the constructors, over the registered types
CtorParamLists ==
    {L \in {<<>>, <<1>>, <<1, 1>>, <<1, 2>>, <<2, 1>>} :
        \A k \in 1..Len(L) : L[k] \in RegisteredIds}

RECURSIVE CtorCount(_)
CtorCount(ids) ==
    IF ids = {} THEN 0
    ELSE LET t == CHOOSE x \in ids : TRUE
         IN  Len(get_constructors(t)) + CtorCount(ids \ {t})

RegisterCtorType ==
    /\ m_type_id_counter < MaxCtorTypes
    /\ RegisterType(ClassNames[m_type_id_counter + 1], 0, 0, 0, <<>>, ClassInfo)

RegisterTypeConstructor ==
    \E t \in AnyIds, params \in CtorParamLists :
        /\ CtorCount(RegisteredIds) < MaxCtors
        /\ RegisterConstructor(t, params)

NextCtor == RegisterCtorType \/ RegisterTypeConstructor

SpecCtor == Init /\ [][NextCtor]_vars

\* the constructors of t whose parameters are the list, as registered
CtorsWith(t, L) ==
    {k \in 1..Len(get_constructors(t)) : get_constructors(t)[k].params = L}

\* C9: getConstructor(t, L) returns a constructor that was registered on t
\* and whose parameter types are those of L, one by one, whenever t has such
\* a constructor, and the invalid constructor when t has none.
C9_ConstructorRoundTrip ==
    \A t \in AnyIds :
        \A L \in {<<>>, <<1>>, <<2>>, <<1, 1>>, <<1, 2>>, <<2, 1>>, <<1, 1, 1>>} :
            IF CtorsWith(t, L) = {}
            THEN get_constructor(t, L) = InvalidItem
            ELSE /\ get_constructor(t, L).params = L
                 /\ get_constructor(t, L).declaring_type = t
                 /\ \E k \in CtorsWith(t, L) :
                        get_constructors(t)[k] = get_constructor(t, L)

\* registerConstructor was accepted for a type that now has two constructors
\* of the same length and different parameter types; the second is found by
\* its list and a list no constructor has gives the invalid constructor
C9_Witness ==
    /\ last_call.op = "register_constructor"
    /\ last_call.ret = TRUE
    /\ get_constructors(last_call.t) =
           <<Item("", <<1, 1>>, last_call.t), Item("", <<1, 2>>, last_call.t)>>
    /\ get_constructor(last_call.t, <<1, 2>>) = Item("", <<1, 2>>, last_call.t)
    /\ get_constructor(last_call.t, <<2, 1>>) = InvalidItem

(***************************************************************************)
(* Types with metadata.                                                    *)
(***************************************************************************)
Meta(key, value) == [key |-> key, value |-> value]

\* the lists handed to registerMetadata: empty, one entry, two keys in
\* ascending and in descending order, one key twice
MetadataLists ==
    {<<>>, <<Meta(1, 1)>>, <<Meta(1, 2)>>, <<Meta(2, 1)>>, <<Meta(2, 2)>>,
     <<Meta(1, 1), Meta(2, 2)>>, <<Meta(2, 2), Meta(1, 1)>>,
     <<Meta(1, 1), Meta(1, 2)>>}

RegisterItemType ==
    /\ m_type_id_counter < MaxItemTypes
    /\ RegisterType(ClassNames[m_type_id_counter + 1], 0, 0, 0, <<>>, ClassInfo)

RegisterTypeMetadata ==
    \E t \in AnyIds, data \in MetadataLists : RegisterMetadata(t, data)

NextMeta == RegisterItemType \/ RegisterTypeMetadata

SpecMeta == Init /\ [][NextMeta]_vars

\* C6: a key that was first handed to registerMetadata in a list of its own
\* keeps the value of that call: getMetadata returns it whatever was
\* registered for the type before and after.
C6_FirstWriteWins ==
    \A t \in RegisteredIds :
        \A k \in DOMAIN MapGet(metadata_passed, t) :
            metadata_passed[t][k].alone =>
                get_metadata(t, k) = metadata_passed[t][k].value

KeysOf(data) == {data[k].key : k \in 1..Len(data)}

FirstValueOf(data, key) ==
    data[CHOOSE k \in 1..Len(data) :
             /\ data[k].key = key
             /\ \A j \in 1..(k - 1) : data[j].key # key].value

\* the lookup of the vector of t in a metadata table
GetMetadataOf(list, t, key) ==
    LET meta_vec == get_item_by_type(t, list)
    IN  IF meta_vec = nullptr THEN InvalidVariant ELSE get_metadata_in(key, meta_vec)

\* C7: a registerMetadata call for a valid type that has metadata already
\* makes every key of its list that was not there retrievable with the value
\* of the list, and every key that was retrievable stays so with its value.
C7_NewKeysInserted ==
    [][(/\ last_call'.op = "register_metadata"
        /\ last_call'.ret = TRUE
        /\ get_metadata_list(last_call'.t) # nullptr)
       => \A k \in {1, 2} :
              LET before == get_metadata(last_call'.t, k)
                  after  == GetMetadataOf(m_metadata_type_list', last_call'.t, k)
              IN  /\ before # InvalidVariant => after = before
                  /\ (before = InvalidVariant /\ k \in KeysOf(last_call'.arg))
                         => after = FirstValueOf(last_call'.arg, k)]_vars

(***************************************************************************)
(* The registration entry points, the invalid type included.               *)
(***************************************************************************)
EntryProperty == \E t \in AnyIds, name \in PropertyNames : RegisterProperty(t, name)

EntryConstructor ==
    \E t \in AnyIds :
        /\ CtorCount(RegisteredIds) < MaxCtors
        /\ RegisterConstructor(t, <<>>)

EntryDestructor == \E t \in AnyIds : RegisterDestructor(t, "d")

EntryMetadata == \E t \in AnyIds : RegisterMetadata(t, <<Meta(1, 1)>>)

EntryCustomName ==
    \E t \in AnyIds :
        /\ renames < MaxRenames
        /\ RegisterCustomName(t, <<"X">>)

NextEntry ==
    \/ RegisterItemType
    \/ EntryProperty
    \/ EntryConstructor
    \/ EntryDestructor
    \/ EntryMetadata
    \/ EntryCustomName

SpecEntry == Init /\ [][NextEntry]_vars

\* the ids of the entries of a per-type vector
IdsIn(vec) == {vec[k].m_id : k \in 1..Len(vec)}

\* C10: no map and no per-type vector holds an entry of the invalid id 0,
\* the name indexes have no entry of id 0, and the row of id 0 is the dummy
\* row of the construction.
C10_InvalidIdCarriesNothing ==
    /\ m_invalid_id \notin DOMAIN m_type_property_map
    /\ m_invalid_id \notin DOMAIN m_class_property_map
    /\ m_invalid_id \notin DOMAIN m_type_method_map
    /\ m_invalid_id \notin DOMAIN m_class_method_map
    /\ m_invalid_id \notin DOMAIN m_type_ctor_map
    /\ m_invalid_id \notin DOMAIN m_type_dtor_map
    /\ m_invalid_id \notin IdsIn(m_enumeration_list)
    /\ m_invalid_id \notin IdsIn(m_metadata_type_list)
    /\ m_invalid_id \notin IdsIn(m_type_converter_list)
    /\ m_invalid_id \notin IdsIn(m_type_comparator_list)
    /\ m_invalid_id \notin IdsIn(m_orig_name_to_id)
    /\ m_invalid_id \notin IdsIn(m_custom_name_to_id)
    /\ At(m_orig_names, m_invalid_id) = <<"!">>
    /\ At(m_custom_names, m_invalid_id) = <<"!">>
    /\ At(m_type_list, m_invalid_id) = m_invalid_id
    /\ At(m_raw_type_list, m_invalid_id) = m_invalid_id

(***************************************************************************)
(* Lookups on a registry with members and items of every kind.             *)
(***************************************************************************)
\* a class, a pointer to it, another class
LookupNames == << <<"A">>, <<"A", " ", "*">>, <<"B">> >>

RegisterLookupType ==
    LET name == LookupNames[m_type_id_counter + 1]
    IN  /\ m_type_id_counter < MaxLookupTypes
        /\ RegisterType(name, IF TypeInfoOf(name).is_pointer THEN 1 ELSE 0, 0, 0,
                        <<>>, TypeInfoOf(name))

\* the number of entries of a map of vectors
RECURSIVE MapSize(_)
MapSize(map) ==
    IF DOMAIN map = {} THEN 0
    ELSE LET t == CHOOSE x \in DOMAIN map : TRUE
         IN  Len(map[t]) + MapSize([x \in DOMAIN map \ {t} |-> map[x]])

\* the members and items the registry holds
StoredCount ==
    MapSize(m_type_property_map) + Len(m_global_properties)
        + MapSize(m_type_method_map) + Len(m_global_methods)
        + MapSize(m_type_ctor_map) + Cardinality(DOMAIN m_type_dtor_map)
        + Len(m_enumeration_list) + Len(m_metadata_type_list)
        + Len(m_type_converter_list) + Len(m_type_comparator_list)

\* the registrations are made for the type registered last, or for type 0
NewestIds == {m_invalid_id, m_type_id_counter}

StoreMember ==
    /\ StoredCount < MaxStored
    /\ \E t \in NewestIds :
           \/ RegisterProperty(t, "p")
           \/ \E params \in {<<>>, <<1>>} : RegisterMethod(t, "m", params)
           \/ \E params \in {<<>>, <<1>>} : RegisterConstructor(t, params)
           \/ RegisterDestructor(t, "d")

StoreItem ==
    /\ StoredCount < MaxStored
    /\ \E t \in NewestIds :
           \/ RegisterEnumeration(t, "e")
           \/ RegisterMetadata(t, <<Meta(1, 1)>>)
           \/ \E target \in RegisteredIds : RegisterConverter(t, Converter(target, "c"))
           \/ RegisterComparator(t, "c")

StoreCustomName ==
    /\ renames < MaxRenames
    /\ \E t \in NewestIds : RegisterCustomName(t, <<"X">>)

NextLookup == RegisterLookupType \/ StoreMember \/ StoreItem \/ StoreCustomName

SpecLookup == Init /\ [][NextLookup]_vars

\* the names, parameter lists and keys the lookups are made with
LookupMemberNames == {"p", "m", "q"}

LookupParamLists == {<<>>, <<1>>, <<2>>, <<1, 1>>}

LookupTypeNames == {<<"A">>, <<"B">>, <<"X">>, <<"A", " ", "*">>, <<"X", " ", "*">>}

\* the items of a vector that have the name
Named(vec, name) == {k \in 1..Len(vec) : vec[k].name = name}

NamedWith(vec, name, type_list) ==
    {k \in Named(vec, name) : vec[k].params = type_list}

\* C11: a lookup for which the registry holds nothing returns the invalid
\* value of its kind: id 0 for a name that is no type's custom name, the
\* invalid item for a property, method, constructor or destructor, the
\* invalid variant for a metadata key, nullptr for a converter, a comparator
\* or an enumeration.  (The lookups read the tables and write nothing.)
C11_NothingFoundIsInvalid ==
    /\ \A n \in LookupTypeNames :
           (\A t \in RegisteredIds : At(m_custom_names, t) # n)
               => get_by_name(n) = m_invalid_id
    /\ \A t \in AnyIds, n \in LookupMemberNames :
           /\ Named(MapGet(m_type_property_map, t), n) = {}
                  => get_type_property(t, n) = InvalidItem
           /\ Named(MapGet(m_class_property_map, t), n) = {}
                  => get_class_property(t, n) = InvalidItem
           /\ Named(MapGet(m_type_method_map, t), n) = {}
                  => get_type_method_named(t, n) = InvalidItem
           /\ Named(MapGet(m_class_method_map, t), n) = {}
                  => get_class_method_named(t, n) = InvalidItem
           /\ \A L \in LookupParamLists :
                  /\ NamedWith(MapGet(m_type_method_map, t), n, L) = {}
                         => get_type_method(t, n, L) = InvalidItem
                  /\ NamedWith(MapGet(m_class_method_map, t), n, L) = {}
                         => get_class_method(t, n, L) = InvalidItem
    /\ \A n \in LookupMemberNames :
           /\ Named(m_global_properties, n) = {} => get_global_property(n) = InvalidItem
           /\ Named(m_global_methods, n) = {} => get_global_method_named(n) = InvalidItem
           /\ \A L \in LookupParamLists :
                  NamedWith(m_global_methods, n, L) = {}
                      => get_global_method(n, L) = InvalidItem
    /\ \A t \in AnyIds :
           /\ \A L \in LookupParamLists :
                  NamedWith(MapGet(m_type_ctor_map, t), "", L) = {}
                      => get_constructor(t, L) = InvalidItem
           /\ t \notin DOMAIN m_type_dtor_map => get_destructor(t) = InvalidItem
           /\ t \notin IdsIn(m_enumeration_list) => get_enumeration(t) = nullptr
           /\ t \notin IdsIn(m_type_comparator_list) => get_comparator(t) = nullptr
           /\ \A k \in {1, 2} :
                  (\A e \in 1..Len(m_metadata_type_list) :
                       m_metadata_type_list[e].m_id = t
                           => k \notin KeysOf(m_metadata_type_list[e].m_data))
                      => get_metadata(t, k) = InvalidVariant
           /\ \A target \in AnyIds :
                  (\A e \in 1..Len(m_type_converter_list) :
                       ~(/\ m_type_converter_list[e].m_id = t
                         /\ m_type_converter_list[e].m_data.m_target_type = target))
                      => get_converter(t, target) = null_converter

\* C11 witness: a class has a property, a method and metadata, and the
\* lookups of another property name, another parameter list and another key
\* find nothing, as does the lookup of the original name of a renamed type
C11_Witness ==
    /\ \E t \in RegisteredIds :
           /\ get_type_property(t, "p") # InvalidItem
           /\ get_type_property(t, "q") = InvalidItem
           /\ get_class_property(t, "q") = InvalidItem
    /\ \E t \in RegisteredIds :
           /\ get_type_method(t, "m", <<1>>) # InvalidItem
           /\ get_type_method(t, "m", <<>>) = InvalidItem

(***************************************************************************)
(* The tables indexed by the id.                                           *)
(***************************************************************************)
\* the lengths of the tables that are indexed by the id of a type
IdTableLengths ==
    {Len(m_orig_names), Len(m_custom_names), Len(m_type_list), Len(m_raw_type_list),
     Len(m_wrapped_type_list), Len(m_array_raw_type_list),
     Len(m_get_derived_info_func_list), Len(m_variant_create_func_list),
     Len(m_type_size), Len(m_is_class_list), Len(m_is_enum_list),
     Len(m_is_array_list), Len(m_is_pointer_list), Len(m_is_arithmetic_list),
     Len(m_is_function_pointer_list), Len(m_is_member_object_pointer_list),
     Len(m_is_member_function_pointer_list), Len(m_pointer_dim_list)}

\* C12: all tables indexed by the id of a type have the same length, the id
\* counter plus one.
C12_IdTablesInLockStep == IdTableLengths = {m_type_id_counter + 1}

(***************************************************************************)
(* Many names: the ids handed out.                                         *)
(***************************************************************************)
\* the k-th names: k times the letter
IdNames(k) == {[i \in 1..k |-> "A"], [i \in 1..k |-> "B"]}

\* the names registered so far
NamesRegistered == Len(m_orig_names) - 1

\* no entry of the name index carries the id 0
NoIdWrapped == m_invalid_id \notin IdsIn(m_orig_name_to_id)

RegisterIdName ==
    /\ NoIdWrapped
    /\ NamesRegistered < MaxIdNames
    /\ \E name \in IdNames(NamesRegistered + 1) :
           RegisterType(name, 0, 0, 0, <<>>, ClassInfo)

RegisterIdNameAgain ==
    /\ NoIdWrapped
    /\ \E k \in 1..NamesRegistered : \E name \in IdNames(k) :
           /\ name \in Range(m_orig_names)
           /\ RegisterType(name, 0, 0, 0, <<>>, ClassInfo)

NextIds == RegisterIdName \/ RegisterIdNameAgain

SpecIds == Init /\ [][NextIds]_vars

\* C13: the id returned for a new name is not 0 and is greater than every
\* id handed out before, so it is the id of no other name.
C13_IdsAscend ==
    [][last_call'.op = "register_type" =>
           /\ last_call'.ret # m_invalid_id
           /\ \A e \in IdsIn(m_orig_name_to_id) : last_call'.ret > e
      ]_vars

(***************************************************************************)
(* Classes with more bases than a row holds.                               *)
(***************************************************************************)
\* lists of different bases, in ascending order, also longer than a row
WideBaseLists(S) ==
    {AscendingList(B) : B \in {C \in SUBSET S : Cardinality(C) <= MaxFanOutBases}}

RegisterWideClass ==
    \E base_classes \in WideBaseLists(ClassIds) :
        /\ m_type_id_counter < MaxFanOutClasses
        /\ RegisterType(ClassNames[m_type_id_counter + 1], 0, 0, 0, base_classes,
                        ClassInfo)

NextFanOut == RegisterWideClass

SpecFanOut == Init /\ [][NextFanOut]_vars

\* the slots of a table that belong to the rows of the types in S
SlotsOfRows(list, S) ==
    {i \in 0..(Len(list) - 1) : i \div RTTR_MAX_INHERIT_TYPES_COUNT \in S}

\* C14: a registerType call writes no index behind the end of a table, no
\* slot of the base or conversion row of a type other than the new one, and
\* no slot of the derived row of a type that is not one of its bases.
C14_OverflowTruncates ==
    [][last_call'.op = "register_type" =>
           LET id    == last_call'.ret
               bases == BasesPassed(last_call'.arg)
           IN  /\ out_of_bounds' = FALSE
               /\ \A i \in SlotsOfRows(m_base_class_list, RegisteredIds \ {id}) :
                      /\ At(m_base_class_list', i) = At(m_base_class_list, i)
                      /\ At(m_conversion_list', i) = At(m_conversion_list, i)
               /\ \A i \in SlotsOfRows(m_derived_class_list, RegisteredIds \ bases) :
                      At(m_derived_class_list', i) = At(m_derived_class_list, i)
      ]_vars

(***************************************************************************)
(* Types with destructors.                                                 *)
(***************************************************************************)
RegisterWrapperType ==
    /\ m_type_id_counter < MaxWrapperTypes
    /\ RegisterType(ClassNames[m_type_id_counter + 1], 0, 0, 0, <<>>, ClassInfo)

RegisterTypeDestructor ==
    \E t \in AnyIds, wrapper \in {"d1", "d2"} : RegisterDestructor(t, wrapper)

NextDtor == RegisterWrapperType \/ RegisterTypeDestructor

SpecDtor == Init /\ [][NextDtor]_vars

\* C15: a type has at most one destructor, the first one registered for
\* it: a registerDestructor call for a type without destructor makes the
\* destructor handed in the one getDestructor returns, a call for a type
\* with a destructor leaves the table unchanged, and no call changes the
\* destructor of another type.
C15_FirstDestructorWins ==
    [][last_call'.op = "register_destructor" =>
           LET t == last_call'.t
               d == Item(last_call'.name, <<>>, t)
           IN  /\ get_destructor(t) # InvalidItem =>
                      /\ m_type_dtor_map' = m_type_dtor_map
                      /\ last_call'.ret = FALSE
               /\ get_destructor(t) = InvalidItem =>
                      /\ m_type_dtor_map'[t] = d
                      /\ last_call'.ret = TRUE
               /\ \A u \in DOMAIN m_type_dtor_map : m_type_dtor_map'[u] = m_type_dtor_map[u]
               /\ DOMAIN m_type_dtor_map' = DOMAIN m_type_dtor_map \cup {t}
      ]_vars

\* C15 witness: a second destructor was handed in for a type that has one;
\* getDestructor returns the first
C15_Witness ==
    /\ last_call.op = "register_destructor"
    /\ is_valid(last_call.t)
    /\ last_call.ret = FALSE
    /\ last_call.name = "d2"
    /\ get_destructor(last_call.t) = Item("d1", <<>>, last_call.t)

(***************************************************************************)
(* Types with converters.                                                  *)
(***************************************************************************)
RegisterTypeConverter ==
    \E t \in AnyIds, target \in RegisteredIds, wrapper \in {"c1", "c2"} :
        /\ \/ Len(m_type_converter_list) < MaxWrappers
           \/ get_converter(t, target) # null_converter
        /\ RegisterConverter(t, Converter(target, wrapper))

NextConv == RegisterWrapperType \/ RegisterTypeConverter

SpecConv == Init /\ [][NextConv]_vars

\* the entries of a converter table for a pair of types
ConvertersOf(list, source_type, target_type) ==
    {e \in 1..Len(list) : /\ list[e].m_id = source_type
                          /\ list[e].m_data.m_target_type = target_type}

\* C16: the converter table holds at most one converter for a pair (source,
\* target), and getConverter returns it, or null when there is none; a
\* registerConverter call for a pair that is there changes nothing, a call
\* for a new pair of a valid source makes its converter the one
\* getConverter returns, and the converters of all other pairs stay.
C16_OneConverterPerPair ==
    [][last_call'.op = "register_converter" =>
           LET s == last_call'.t
               c == last_call'.arg
           IN  /\ ConvertersOf(m_type_converter_list, s, c.m_target_type) # {} =>
                      m_type_converter_list' = m_type_converter_list
               /\ (is_valid(s)
                      /\ ConvertersOf(m_type_converter_list, s, c.m_target_type) = {}) =>
                      GetConverterIn(m_type_converter_list', s, c.m_target_type) = c
               /\ \A a \in AnyIds, b \in AnyIds :
                      /\ Cardinality(ConvertersOf(m_type_converter_list', a, b)) <= 1
                      /\ ConvertersOf(m_type_converter_list', a, b) = {} =>
                             GetConverterIn(m_type_converter_list', a, b) = null_converter
                      /\ \A e \in ConvertersOf(m_type_converter_list', a, b) :
                             GetConverterIn(m_type_converter_list', a, b)
                                 = m_type_converter_list'[e].m_data
                      /\ <<a, b>> # <<s, c.m_target_type>> =>
                             GetConverterIn(m_type_converter_list', a, b)
                                 = get_converter(a, b)
      ]_vars

\* C16 witness: a second converter was handed in for a pair that has one,
\* after converters of the same source to another target and of another
\* source; getConverter returns the first
C16_Witness ==
    /\ last_call.op = "register_converter"
    /\ last_call.ret = FALSE
    /\ is_valid(last_call.t)
    /\ last_call.arg.wrapper = "c2"
    /\ get_converter(last_call.t, last_call.arg.m_target_type)
           = Converter(last_call.arg.m_target_type, "c1")
    /\ Len(m_type_converter_list) >= 2
    /\ \E e \in 1..Len(m_type_converter_list) :
           /\ m_type_converter_list[e].m_id = last_call.t
           /\ m_type_converter_list[e].m_data.m_target_type # last_call.arg.m_target_type

(***************************************************************************)
(* Types with comparators.                                                 *)
(***************************************************************************)
RegisterTypeComparator ==
    /\ Len(m_type_comparator_list) < MaxComparators
    /\ \E t \in AnyIds, wrapper \in {"c1", "c2"} : RegisterComparator(t, wrapper)

NextComp == RegisterWrapperType \/ RegisterTypeComparator

SpecComp == Init /\ [][NextComp]_vars

\* C17 (as claimed): after registerComparator(t, c) for a valid type t,
\* getComparator(t) returns c, also when t had a comparator.
C17_LastComparatorFound ==
    [][(last_call'.op = "register_comparator" /\ is_valid(last_call'.t)) =>
           GetComparatorIn(m_type_comparator_list', last_call'.t) = last_call'.name
      ]_vars

\* C17 (amended): getComparator(t) returns the comparator registered first
\* for t: a registerComparator call for a type that has a comparator adds
\* an entry and leaves what getComparator returns for every type as it
\* was; a call for a valid type without comparator makes the comparator
\* handed in the one returned.
C17_FirstComparatorFound ==
    [][(last_call'.op = "register_comparator" /\ is_valid(last_call'.t)) =>
           /\ Len(m_type_comparator_list') = Len(m_type_comparator_list) + 1
           /\ get_comparator(last_call'.t) = nullptr =>
                  GetComparatorIn(m_type_comparator_list', last_call'.t)
                      = last_call'.name
           /\ \A t \in AnyIds :
                  get_comparator(t) # nullptr =>
                      GetComparatorIn(m_type_comparator_list', t) = get_comparator(t)
      ]_vars

\* C17 witness: c1 and then c2 were registered for a type; getComparator
\* returns c1
C17_Witness ==
    /\ last_call.op = "register_comparator"
    /\ is_valid(last_call.t)
    /\ last_call.name = "c2"
    /\ get_comparator(last_call.t) = "c1"
    /\ \E e \in 1..Len(m_type_comparator_list) :
           m_type_comparator_list[e] = [m_id |-> last_call.t, m_data |-> "c2"]

(***************************************************************************)
(* Classes whose properties and methods are registered twice.              *)
(***************************************************************************)
DupParamLists == {<<>>, <<1>>, <<2>>}

RegisterDupClass ==
    \E base_classes \in FittingBaseLists(RootIds) :
        /\ m_type_id_counter < MaxDupClasses
        /\ RegisterType(ClassNames[m_type_id_counter + 1], 0, 0, 0, base_classes,
                        ClassInfo)

\* a call is made while there is room for the member, or for a member that
\* the class has
RegisterDupProperty ==
    \E t \in RegisteredIds :
        /\ \/ MapSize(m_type_property_map) + MapSize(m_type_method_map) < MaxDupMembers
           \/ Named(MapGet(m_type_property_map, t), "p") # {}
        /\ RegisterProperty(t, "p")

RegisterDupMethod ==
    \E t \in RegisteredIds, params \in DupParamLists :
        /\ \/ MapSize(m_type_property_map) + MapSize(m_type_method_map) < MaxDupMembers
           \/ NamedWith(MapGet(m_type_method_map, t), "m", params) # {}
        /\ RegisterMethod(t, "m", params)

NextDup == RegisterDupClass \/ RegisterDupProperty \/ RegisterDupMethod

SpecDup == Init /\ [][NextDup]_vars

\* C18: registerProperty(t, p) on a class t that has an own property named
\* like p, and registerMethod(t, m) on a class t that has an own method of
\* the same name and the same list of parameter types, change no own list
\* and no flattened list; registerMethod with a name the class has and a
\* list of parameter types it has not for that name appends the method to
\* the own list of t and makes it the last entry of the flattened list
\* of t.
C18_ClassDuplicatesRejected ==
    [][LET t == last_call'.t
           name == last_call'.name
           params == last_call'.arg
       IN  /\ (/\ last_call'.op = "register_property"
               /\ is_class(t)
               /\ Named(MapGet(m_type_property_map, t), name) # {})
                  => UNCHANGED <<propertyVars, methodVars>>
           /\ (/\ last_call'.op = "register_method"
               /\ is_class(t)
               /\ NamedWith(MapGet(m_type_method_map, t), name, params) # {})
                  => UNCHANGED <<propertyVars, methodVars>>
           /\ (/\ last_call'.op = "register_method"
               /\ is_class(t)
               /\ NamedWith(MapGet(m_type_method_map, t), name, params) = {})
                  => /\ m_type_method_map' =
                            MapPut(m_type_method_map, t,
                                   Append(MapGet(m_type_method_map, t),
                                          Item(name, params, t)))
                     /\ MapGet(m_class_method_map', t) # <<>>
                     /\ MapGet(m_class_method_map', t)
                            [Len(MapGet(m_class_method_map', t))]
                                = Item(name, params, t)
      ]_vars

\* C18 witness: a class has two own methods of one name, a property, and
\* a method it has was registered again
C18_Witness ==
    /\ last_call.op = "register_method"
    /\ last_call.ret = FALSE
    /\ is_class(last_call.t)
    /\ Cardinality(Named(MapGet(m_type_method_map, last_call.t), "m")) = 2
    /\ NamedWith(MapGet(m_type_method_map, last_call.t), "m", last_call.arg) # {}
    /\ Named(MapGet(m_type_property_map, last_call.t), "p") # {}

(***************************************************************************)
(* Global properties and methods.                                          *)
(***************************************************************************)
GlobalParamLists == {<<>>, <<1>>}

\* the types that are no classes, type 0 among them
NonClassIds == {t \in AnyIds : ~is_class(t)}

\* a call is made while there is room for the member, or for a member that
\* the registry has
RegisterGlobalProperty ==
    \E t \in NonClassIds, name \in {"p", "q"} :
        /\ \/ Len(m_global_properties) + Len(m_global_methods) < MaxGlobals
           \/ Named(m_global_properties, name) # {}
        /\ RegisterProperty(t, name)

RegisterGlobalMethod ==
    \E t \in NonClassIds, name \in {"m", "n"}, params \in GlobalParamLists :
        /\ \/ Len(m_global_properties) + Len(m_global_methods) < MaxGlobals
           \/ NamedWith(m_global_methods, name, params) # {}
        /\ RegisterMethod(t, name, params)

NextGlobals == RegisterLookupType \/ RegisterGlobalProperty \/ RegisterGlobalMethod

SpecGlobals == Init /\ [][NextGlobals]_vars

\* the entries of a name, in the order the registry holds them
EntriesNamed(vec, name) == SelectSeq(vec, LAMBDA e : e.name = name)

\* C19 (as claimed): registerProperty and registerMethod on a valid type
\* that is no class always insert: the number of global members grows by
\* one on every such call.
C19_GlobalsAlwaysInserted ==
    [][(/\ last_call'.op \in {"register_property", "register_method"}
        /\ is_valid(last_call'.t)
        /\ ~is_class(last_call'.t))
           => Len(m_global_properties') + Len(m_global_methods')
                  = Len(m_global_properties) + Len(m_global_methods) + 1
      ]_vars

\* C19 (amended): on a valid type that is no class, registerProperty with
\* a name a global property has, and registerMethod with a name and a
\* list of parameter types a global method has, change nothing; every
\* other such call inserts one member, a method behind the global methods
\* of its name, and the other names keep their entries.
C19_GlobalDuplicatesRejected ==
    [][LET t == last_call'.t
           name == last_call'.name
           params == last_call'.arg
       IN  /\ (/\ last_call'.op = "register_property"
               /\ is_valid(t) /\ ~is_class(t))
                  => IF Named(m_global_properties, name) # {}
                     THEN UNCHANGED <<propertyVars, methodVars>>
                     ELSE /\ Len(m_global_properties') = Len(m_global_properties) + 1
                          /\ EntriesNamed(m_global_properties', name)
                                 = <<Item(name, <<>>, t)>>
                          /\ \A n \in {"p", "q"} \ {name} :
                                 EntriesNamed(m_global_properties', n)
                                     = EntriesNamed(m_global_properties, n)
                          /\ UNCHANGED methodVars
           /\ (/\ last_call'.op = "register_method"
               /\ is_valid(t) /\ ~is_class(t))
                  => IF NamedWith(m_global_methods, name, params) # {}
                     THEN UNCHANGED <<propertyVars, methodVars>>
                     ELSE /\ Len(m_global_methods') = Len(m_global_methods) + 1
                          /\ EntriesNamed(m_global_methods', name)
                                 = Append(EntriesNamed(m_global_methods, name),
                                          Item(name, params, t))
                          /\ \A n \in {"m", "n"} \ {name} :
                                 EntriesNamed(m_global_methods', n)
                                     = EntriesNamed(m_global_methods, n)
                          /\ UNCHANGED propertyVars
      ]_vars

\* C19 witness: the registry holds two global methods of one name and a
\* global property, and a global method it holds was registered again
C19_Witness ==
    /\ last_call.op = "register_method"
    /\ last_call.ret = FALSE
    /\ is_valid(last_call.t) /\ ~is_class(last_call.t)
    /\ Len(EntriesNamed(m_global_methods, last_call.name)) = 2
    /\ NamedWith(m_global_methods, last_call.name, last_call.arg) # {}
    /\ m_global_properties # <<>>

(***************************************************************************)
(* Two threads inside register_type.  Line 1029, the lock_guard on         *)
(* g_register_type_mutex, is a comment: nothing orders the statements of   *)
(* one call against those of the other.  The steps are the statements of   *)
(* the call in program order; a thread's id is its local variable.         *)
(***************************************************************************)
ThreadNames == {<<"A">>, <<"B">>}

\* lines 1033, 920-934: the call starts and looks the name up; it returns
\* the id found, or goes on to register the name
ThreadLookup(th) ==
    \E name \in ThreadNames :
        LET existing == find_registered_name(name)
        IN  /\ threads[th].pc = "idle"
            /\ threads' = [threads EXCEPT ![th] =
                   IF existing # m_invalid_id
                   THEN Thread("done", name, existing)
                   ELSE Thread("register_name", name, 0)]
            /\ UNCHANGED <<typeVars, memberVars, itemVars, last_call, renames>>

\* lines 936-944: the counter is incremented, the name and the custom name
\* are stored under the value of the counter
ThreadRegisterName(th) ==
    LET name   == threads[th].name
        id     == (m_type_id_counter + 1) % IdModulus
        custom == derive_name(0, name)
    IN  /\ threads[th].pc = "register_name"
        /\ m_type_id_counter' = id
        /\ m_orig_name_to_id' \in
               sort_by_name(Append(m_orig_name_to_id,
                                   [m_id |-> id, m_hash_value |-> generate_hash(name)]))
        /\ m_orig_names' = Append(m_orig_names, name)
        /\ m_custom_name_to_id' \in
               sort_by_name(Append(m_custom_name_to_id,
                                   [m_id |-> id,
                                    m_hash_value |-> generate_hash(custom)]))
        /\ m_custom_names' = Append(m_custom_names, custom)
        /\ threads' = [threads EXCEPT ![th].pc = "take_id"]
        /\ UNCHANGED <<m_type_list, attrVars, inheritVars, memberVars, itemVars,
                       last_call, renames>>

\* lines 946-947: the id of the call is the value the counter has now
ThreadTakeId(th) ==
    /\ threads[th].pc = "take_id"
    /\ m_type_list' = Append(m_type_list, m_type_id_counter)
    /\ threads' = [threads EXCEPT ![th] =
                       Thread("attributes", threads[th].name, m_type_id_counter)]
    /\ UNCHANGED <<m_type_id_counter, m_orig_names, m_custom_names,
                   m_orig_name_to_id, m_custom_name_to_id, attrVars, inheritVars,
                   memberVars, itemVars, last_call, renames>>

\* lines 1038-1057: the attributes of the type are appended
ThreadAttributes(th) ==
    LET name   == threads[th].name
        id     == threads[th].id
        info   == ClassInfo
        funcs  == ResizeMax(m_get_derived_info_func_list, id + 1, nullptr)
    IN  /\ threads[th].pc = "attributes"
        /\ m_raw_type_list' = Append(m_raw_type_list, id)
        /\ m_wrapped_type_list' = Append(m_wrapped_type_list, 0)
        /\ m_array_raw_type_list' = Append(m_array_raw_type_list, id)
        /\ m_get_derived_info_func_list' = Put(funcs, id, derived_func_of(name))
        /\ m_variant_create_func_list' =
               Append(m_variant_create_func_list, variant_func_of(name))
        /\ m_type_size' = Append(m_type_size, info.type_size)
        /\ m_is_class_list' = Append(m_is_class_list, info.is_class)
        /\ m_is_enum_list' = Append(m_is_enum_list, info.is_enum)
        /\ m_is_array_list' = Append(m_is_array_list, info.is_array)
        /\ m_is_pointer_list' = Append(m_is_pointer_list, info.is_pointer)
        /\ m_is_arithmetic_list' = Append(m_is_arithmetic_list, info.is_arithmetic)
        /\ m_is_function_pointer_list' =
               Append(m_is_function_pointer_list, info.is_function_pointer)
        /\ m_is_member_object_pointer_list' =
               Append(m_is_member_object_pointer_list, info.is_member_object_pointer)
        /\ m_is_member_function_pointer_list' =
               Append(m_is_member_function_pointer_list,
                      info.is_member_function_pointer)
        /\ m_pointer_dim_list' = Append(m_pointer_dim_list, info.pointer_dimension)
        /\ threads' = [threads EXCEPT ![th].pc = "base_class_info"]
        /\ UNCHANGED <<nameVars, inheritVars, memberVars, itemVars, last_call,
                       renames>>

\* lines 1060-1062: register_base_class_info for a type without bases, and
\* the return of the id
ThreadBaseClassInfo(th) ==
    LET id      == threads[th].id
        inherit == register_base_class_info(id, id, <<>>, m_raw_type_list)
    IN  /\ threads[th].pc = "base_class_info"
        /\ m_base_class_list' = inherit.base_class_list
        /\ m_conversion_list' = inherit.conversion_list
        /\ m_derived_class_list' = inherit.derived_class_list
        /\ out_of_bounds' = (out_of_bounds \/ inherit.out_of_bounds)
        /\ last_call' = Call("register_type", 0, threads[th].name, <<>>, id)
        /\ threads' = [threads EXCEPT ![th].pc = "done"]
        /\ UNCHANGED <<nameVars, attrVars, memberVars, itemVars, renames>>

ThreadStep ==
    \E th \in Threads :
        \/ ThreadLookup(th)
        \/ ThreadRegisterName(th)
        \/ ThreadTakeId(th)
        \/ ThreadAttributes(th)
        \/ ThreadBaseClassInfo(th)

NextThreads == ThreadStep

SpecThreads == Init /\ [][NextThreads]_vars

\* C20: when two threads have each called registerType and both calls
\* have returned, the registry is what the two calls made one after the
\* other leave: each name is stored under exactly one id, which is the id
\* the call returned; two names have two ids; all tables indexed by id
\* have one length; the attributes of each type are at the index that is
\* its id.
C20_CallsAreSerialized ==
    (\A th \in Threads : threads[th].pc = "done") =>
        /\ \A th \in Threads : IdsOfName(m_orig_names, threads[th].name) = {threads[th].id}
        /\ \A a \in Threads, b \in Threads :
               (threads[a].name = threads[b].name) = (threads[a].id = threads[b].id)
        /\ Cardinality(IdTableLengths) = 1
        /\ \A th \in Threads :
               /\ threads[th].id < Len(m_variant_create_func_list)
               /\ At(m_variant_create_func_list, threads[th].id)
                      = variant_func_of(threads[th].name)
               /\ At(m_raw_type_list, threads[th].id) = threads[th].id
               /\ At(m_type_list, threads[th].id) = threads[th].id

(***************************************************************************)
(* Threads that query the registry.  A query is made of its search (find   *)
(* or lower_bound) and of the statements behind it; the statements of two  *)
(* queries interleave.  The registry is written only while no query is     *)
(* under way.                                                              *)
(***************************************************************************)
\* a query: its type argument, its member name, and the list of its other
\* arguments (the characters of a type name, parameter types, a key, a
\* target type)
Query(op, t, name, arg) == [op |-> op, t |-> t, name |-> name, arg |-> arg]

\* a thread between the search of its query and the statements behind it
Reader(query, itr) == [pc |-> "searched", query |-> query, itr |-> itr]

NoReader == \A th \in Threads : threads[th].pc = "idle"

RegisterReadType ==
    LET name == LookupNames[m_type_id_counter + 1]
    IN  /\ NoReader
        /\ m_type_id_counter < MaxReadTypes
        /\ RegisterType(name, IF TypeInfoOf(name).is_pointer THEN 1 ELSE 0, 0, 0,
                        <<>>, TypeInfoOf(name))

StoreForReaders ==
    /\ NoReader
    /\ StoredCount < MaxReadStored
    /\ LET t == m_type_id_counter
       IN  \/ RegisterProperty(t, "p")
           \/ RegisterMethod(t, "m", <<>>)
           \/ RegisterConstructor(t, <<>>)
           \/ RegisterMetadata(t, <<Meta(1, 1)>>)
           \/ RegisterConverter(t, Converter(t, "c"))
           \/ RegisterComparator(t, "c")

\* the queries the threads make
ReaderQueries ==
    {Query("get_by_name", 0, "", n) : n \in {<<"A">>, <<"X">>}}
        \cup UNION {{Query("get_class_property", t, "p", <<>>),
                     Query("get_class_properties", t, "", <<>>),
                     Query("get_global_method", 0, "m", <<>>),
                     Query("get_constructor", t, "", <<>>),
                     Query("get_metadata", t, "", <<1>>),
                     Query("get_converter", t, "", <<t>>),
                     Query("get_comparator", t, "", <<>>)} : t \in {m_type_id_counter}}

\* find on an unordered_map: the key, or npos for end()
MapFind(map, key) == IF key \in DOMAIN map THEN key ELSE npos

\* the first statement of a query: where its search ends
SearchOf(q) ==
    CASE q.op = "get_by_name" ->
             lower_bound(HashKeys(m_custom_name_to_id), generate_hash(q.arg))
      [] q.op = "get_class_property" -> MapFind(m_class_property_map, q.t)
      [] q.op = "get_class_properties" -> MapFind(m_class_property_map, q.t)
      [] q.op = "get_global_method" -> MultimapFind(m_global_methods, q.name)
      [] q.op = "get_constructor" -> MapFind(m_type_ctor_map, q.t)
      [] q.op = "get_metadata" -> lower_bound(IdKeys(m_metadata_type_list), q.t)
      [] q.op = "get_converter" -> lower_bound(IdKeys(m_type_converter_list), q.t)
      [] q.op = "get_comparator" -> lower_bound(IdKeys(m_type_comparator_list), q.t)

\* the statements behind the search, from the position itr on
FinishFrom(q, itr) ==
    CASE q.op = "get_by_name" ->
             ScanNameRun(m_custom_name_to_id, m_custom_names, q.arg,
                         generate_hash(q.arg), itr)
      [] q.op = "get_class_property" ->
             IF itr = npos THEN InvalidItem
             ELSE FirstNamed(m_class_property_map[itr], q.name)
      [] q.op = "get_class_properties" ->
             IF itr = npos THEN <<>> ELSE m_class_property_map[itr]
      [] q.op = "get_global_method" ->
             IF itr = npos THEN InvalidItem
             ELSE ScanGlobalMethods(m_global_methods, itr, q.name, q.arg)
      [] q.op = "get_constructor" ->
             IF itr = npos THEN InvalidItem
             ELSE FirstMatching(m_type_ctor_map[itr], q.arg)
      [] q.op = "get_metadata" ->
             IF itr < Len(m_metadata_type_list)
                /\ At(m_metadata_type_list, itr).m_id = q.t
             THEN get_metadata_in(q.arg[1], At(m_metadata_type_list, itr).m_data)
             ELSE InvalidVariant
      [] q.op = "get_converter" ->
             ScanConverters(m_type_converter_list, itr, q.t, q.arg[1])
      [] q.op = "get_comparator" ->
             IF itr < Len(m_type_comparator_list)
                /\ At(m_type_comparator_list, itr).m_id = q.t
             THEN At(m_type_comparator_list, itr).m_data
             ELSE nullptr

\* a query that goes on one entry behind the one its search found
FinishPastFound(q, itr) == FinishFrom(q, IF itr = npos THEN npos ELSE itr + 1)

FinishOf(q, itr) == FinishFrom(q, itr)

\* the query made by one thread alone
AloneOf(q) ==
    CASE q.op = "get_by_name" -> get_by_name(q.arg)
      [] q.op = "get_class_property" -> get_class_property(q.t, q.name)
      [] q.op = "get_class_properties" -> get_class_properties(q.t)
      [] q.op = "get_global_method" -> get_global_method(q.name, q.arg)
      [] q.op = "get_constructor" -> get_constructor(q.t, q.arg)
      [] q.op = "get_metadata" -> get_metadata(q.t, q.arg[1])
      [] q.op = "get_converter" -> get_converter(q.t, q.arg[1])
      [] q.op = "get_comparator" -> get_comparator(q.t)

ReaderSearch(th) ==
    \E q \in ReaderQueries :
        /\ threads[th].pc = "idle"
        /\ threads' = [threads EXCEPT ![th] = Reader(q, SearchOf(q))]
        /\ UNCHANGED <<typeVars, memberVars, itemVars, last_call, renames>>

ReaderFinish(th) ==
    LET q == threads[th].query
    IN  /\ threads[th].pc = "searched"
        /\ last_call' = Call(q.op, q.t, q.name, q.arg, FinishOf(q, threads[th].itr))
        /\ threads' = [threads EXCEPT ![th] = IdleThread]
        /\ UNCHANGED <<typeVars, memberVars, itemVars, renames>>

ReaderStep == \E th \in Threads : ReaderSearch(th) \/ ReaderFinish(th)

NextReaders == RegisterReadType \/ StoreForReaders \/ ReaderStep

SpecReaders == Init /\ [][NextReaders]_vars

ReaderOps ==
    {"get_by_name", "get_class_property", "get_class_properties",
     "get_global_method", "get_constructor", "get_metadata", "get_converter",
     "get_comparator"}

Release(kind, handle) == [kind |-> kind, handle |-> handle]

ReleasesOf(kind, vec) == [k \in 1..Len(vec) |-> Release(kind, vec[k])]

\* the vectors of a map, one after the other
RECURSIVE ValuesOf(_)
ValuesOf(map) ==
    IF DOMAIN map = {} THEN <<>>
    ELSE LET t == CHOOSE x \in DOMAIN map : TRUE
         IN  map[t] \o ValuesOf([x \in DOMAIN map \ {t} |-> map[x]])

\* a teardown that destroys the items of the flattened lists as well
DestroyedPropertiesAndCopies ==
    ReleasesOf("property", m_global_properties)
        \o ReleasesOf("property", ValuesOf(m_type_property_map))
        \o ReleasesOf("property", ValuesOf(m_class_property_map))

\* lines 120-127
DestroyedProperties ==
    ReleasesOf("property", m_global_properties)
        \o ReleasesOf("property", ValuesOf(m_type_property_map))

\* lines 129-136
DestroyedMethods ==
    ReleasesOf("method", m_global_methods)
        \o ReleasesOf("method", ValuesOf(m_type_method_map))

\* lines 138-142
DestroyedConstructors == ReleasesOf("constructor", ValuesOf(m_type_ctor_map))

\* lines 144-145
DestroyedDestructors ==
    ReleasesOf("destructor",
               ValuesOf([t \in DOMAIN m_type_dtor_map |-> <<m_type_dtor_map[t]>>]))

\* line 146: the members are destroyed, and with them the unique_ptr of the
\* entries of the three lists
DestroyedListEntries ==
    ReleasesOf("enumeration",
               [k \in 1..Len(m_enumeration_list) |-> m_enumeration_list[k].m_data])
        \o ReleasesOf("metadata",
               [k \in 1..Len(m_metadata_type_list) |-> m_metadata_type_list[k].m_data])
        \o ReleasesOf("converter",
               [k \in 1..Len(m_type_converter_list) |->
                   m_type_converter_list[k].m_data])

\* ~type_database: the wrappers it deletes
TeardownReleases ==
    DestroyedProperties \o DestroyedMethods \o DestroyedConstructors
        \o DestroyedDestructors \o DestroyedListEntries

TornDown == last_call.op = "~type_database"

\* ~type_database
Teardown ==
    /\ ~TornDown
    /\ last_call' = Call("~type_database", 0, "", <<>>, TeardownReleases)
    /\ m_type_property_map' = <<>>
    /\ m_class_property_map' = <<>>
    /\ m_global_properties' = <<>>
    /\ m_type_method_map' = <<>>
    /\ m_class_method_map' = <<>>
    /\ m_global_methods' = <<>>
    /\ m_type_ctor_map' = <<>>
    /\ m_type_dtor_map' = <<>>
    /\ m_enumeration_list' = <<>>
    /\ m_metadata_type_list' = <<>>
    /\ m_type_converter_list' = <<>>
    /\ m_type_comparator_list' = <<>>
    /\ UNCHANGED <<typeVars, metadata_passed, renames, threads>>

RegisterOwnerType ==
    LET name == LookupNames[m_type_id_counter + 1]
    IN  /\ ~TornDown
        /\ m_type_id_counter < MaxOwnerTypes
        /\ RegisterType(name, IF TypeInfoOf(name).is_pointer THEN 1 ELSE 0, 0, 0,
                        <<>>, TypeInfoOf(name))

HandWrapper ==
    /\ ~TornDown
    /\ StoredCount < MaxOwned
    /\ \E t \in AnyIds :
           \/ RegisterProperty(t, "p")
           \/ RegisterMethod(t, "m", <<>>)
           \/ RegisterConstructor(t, <<>>)
           \/ RegisterDestructor(t, "d")
           \/ RegisterEnumeration(t, "e")
           \/ RegisterMetadata(t, <<Meta(1, 1)>>)
           \/ RegisterConverter(t, Converter(t, "c"))

NextOwner == RegisterOwnerType \/ HandWrapper \/ Teardown

SpecOwner == Init /\ [][NextOwner]_vars

\* how often a teardown deletes a wrapper
SameRelease(x, y) == x.kind = y.kind /\ x.handle = y.handle

TimesReleased(releases, x) ==
    Cardinality({k \in 1..Len(releases) : SameRelease(releases[k], x)})

\* the wrapper a call has handed in, and whether the call has stored it
WrapperOf(call) ==
    CASE call.op = "register_property" ->
             Release("property", Item(call.name, <<>>, call.t))
      [] call.op = "register_method" ->
             Release("method", Item(call.name, call.arg, call.t))
      [] call.op = "register_constructor" ->
             Release("constructor", Item("", <<>>, call.t))
      [] call.op = "register_destructor" ->
             Release("destructor", Item(call.name, <<>>, call.t))
      [] call.op = "register_enumeration" -> Release("enumeration", call.name)
      [] call.op = "register_metadata" -> Release("metadata", call.arg)
      [] call.op = "register_converter" -> Release("converter", call.arg)

RegisterOps ==
    {"register_property", "register_method", "register_constructor",
     "register_destructor", "register_enumeration", "register_metadata",
     "register_converter"}

\* C22: every wrapper handed to a register call is released exactly once.
\* A call that stores its wrapper adds this one wrapper to what the
\* teardown deletes, once, and leaves every other wrapper in it as often
\* as it was (the flattened lists add nothing); a call that stores nothing
\* leaves what the teardown deletes as it was, its wrapper being deleted at
\* the return of the call; the teardown deletes what the registry holds
\* and leaves nothing that could be deleted again.
C22_WrappersReleasedOnce ==
    [][/\ last_call'.op \in RegisterOps =>
              LET w      == WrapperOf(last_call')
                  \* the call took the wrapper out of its unique_ptr
                  stored == /\ last_call'.ret = TRUE
                            /\ (last_call'.op = "register_metadata"
                                    => get_metadata_list(last_call'.t) = nullptr)
                  before == TeardownReleases
                  after  == TeardownReleases'
              IN  /\ Len(after) = Len(before) + (IF stored THEN 1 ELSE 0)
                  /\ TimesReleased(after, w)
                         = TimesReleased(before, w) + (IF stored THEN 1 ELSE 0)
                  /\ \A k \in 1..Len(before) :
                         SameRelease(before[k], w)
                             \/ TimesReleased(after, before[k])
                                    = TimesReleased(before, before[k])
       /\ last_call'.op = "~type_database" =>
              /\ last_call'.ret = TeardownReleases
              /\ TeardownReleases' = <<>>
      ]_vars

\* C22 witness: the registry was torn down while it held the property of a
\* class, of which the flattened list held a copy, and another wrapper
C22_Witness ==
    /\ TornDown
    /\ Len(last_call.ret) = 2
    /\ \E k \in 1..2 :
           /\ last_call.ret[k].kind = "property"
           /\ is_class(last_call.ret[k].handle.declaring_type)

(***************************************************************************)
(* Names with the same hash value.                                         *)
(***************************************************************************)
\* "AB", "BA" and "X" have one hash value; that of "A" is smaller, that of
\* "A*" is larger
HashNames == {<<"A">>, <<"A", "B">>, <<"B", "A">>, <<"X">>, <<"A", "*">>}

RegisterHashName ==
    \E name \in HashNames :
        /\ find_registered_name(name) = m_invalid_id
        /\ m_type_id_counter < MaxHashNames
        /\ RegisterType(name, 0, 0, 0, <<>>, TypeInfoOf(name))

RegisterHashNameAgain ==
    \E name \in HashNames :
        /\ find_registered_name(name) # m_invalid_id
        /\ RegisterType(name, 0, 0, 0, <<>>, TypeInfoOf(name))

NextHash == RegisterHashName \/ RegisterHashNameAgain

SpecHash == Init /\ [][NextHash]_vars

\* the registered types whose original name has the hash value of that of t
SameHashIds(t) ==
    {u \in RegisteredIds \ {t} :
        generate_hash(At(m_orig_names, u)) = generate_hash(At(m_orig_names, t))}

\* C23: two names with one hash value are told apart by their characters:
\* they are stored under two ids, a registration of either name again
\* returns the id of that name, and getByName of the custom name of either
\* returns its id, whatever other names are registered.
C23_CollisionsResolvedByName ==
    /\ \A t \in RegisteredIds :
           SameHashIds(t) # {} =>
               /\ \A u \in SameHashIds(t) : At(m_orig_names, u) # At(m_orig_names, t)
               /\ find_registered_name(At(m_orig_names, t)) = t
               /\ get_by_name(At(m_custom_names, t)) = t
    /\ last_call.op = "register_type_again" =>
           At(m_orig_names, last_call.ret) = last_call.name

\* C23 witness: two names of one hash value, a name of a smaller and a name
\* of a larger hash value are registered, and one of the two was
\* registered again
C23_Witness ==
    /\ last_call.op = "register_type_again"
    /\ SameHashIds(last_call.ret) # {}
    /\ \E a \in RegisteredIds, b \in RegisteredIds :
           /\ generate_hash(At(m_orig_names, a)) < generate_hash(last_call.name)
           /\ generate_hash(At(m_orig_names, b)) > generate_hash(last_call.name)

(***************************************************************************)
(* A type that is renamed several times, and the types derived from it.    *)
(***************************************************************************)
\* a class, and pointers to it of dimension one, two and three
RenamedTypeNames ==
    << <<"A">>, <<"A", " ", "*">>, <<"A", " ", "*", "*">>,
       <<"A", " ", "*", "*", "*">> >>

\* the pointers have the class as raw type and as array raw type
RegisterRenamedType ==
    LET name == RenamedTypeNames[m_type_id_counter + 1]
        raw  == IF m_type_id_counter = 0 THEN 0 ELSE 1
    IN  /\ m_type_id_counter < MaxRenamedTypes
        /\ RegisterType(name, raw, 0, raw, <<>>, TypeInfoOf(name))

\* the class is renamed (type 0 is not); the original name "A" does not
\* occur in the custom names
RenameAgain ==
    \E t \in {m_invalid_id, 1}, custom_name \in {<<"X">>, <<"B">>, <<"X", "B">>} :
        /\ renames < MaxRenameCalls
        /\ RegisterCustomName(t, custom_name)

NextRename == RegisterRenamedType \/ RenameAgain

SpecRename == Init /\ [][NextRename]_vars

\* C24: in every state, each registered type U whose array raw type is
\* another type T has the custom name that is derived from the original
\* name of U with the custom name T has now in the place of the original
\* name of T, and getByName of that name returns U.
C24_DerivedNamesFollowRenames ==
    \A T \in RegisteredIds, U \in RegisteredIds :
        (U # T /\ At(m_array_raw_type_list, U) = T) =>
            LET derived == derive_name3(normalize_orig_name(At(m_orig_names, U)),
                                        normalize_orig_name(At(m_orig_names, T)),
                                        At(m_custom_names, T))
            IN  /\ At(m_custom_names, U) = derived
                /\ get_by_name(derived) = U

(***************************************************************************)
(* Flattened lists along chains of classes.                                *)
(***************************************************************************)
\* the types of S and the types that have a type of S among their
\* ancestors, over at most n levels
RECURSIVE DescendantsWithin(_, _)
DescendantsWithin(S, n) ==
    IF n = 0 THEN S
    ELSE DescendantsWithin(S \cup UNION {TypesWithBase(b) : b \in S}, n - 1)

\* C25: after an accepted registerProperty on a class T, the flattened
\* list of T and of every descendant X of T is the flattened lists of the
\* bases in the base row of X, one after the other, followed by the own
\* list of X.
C25_FlattenedFromFlattened ==
    [][(last_call'.op = "register_property" /\ last_call'.ret = TRUE
           /\ is_class(last_call'.t)) =>
           \A X \in DescendantsWithin({last_call'.t}, m_type_id_counter) :
               MapGet(m_class_property_map', X) =
                   ItemsOfBases(get_base_classes(X), m_class_property_map')
                       \o MapGet(m_type_property_map', X)
      ]_vars

(***************************************************************************)
(* The order of the metadata vectors and of the name indexes.              *)
(***************************************************************************)
\* C26: in every state each metadata vector of a type is in strictly
\* ascending order of its keys (sorted, no key twice), and the lookup by
\* bisection finds every key the vector holds.
C26_MetadataSortedByKey ==
    \A e \in 1..Len(m_metadata_type_list) :
        LET data == m_metadata_type_list[e].m_data
        IN  /\ \A k \in 1..(Len(data) - 1) : data[k].key < data[k + 1].key
            /\ \A k \in 1..Len(data) :
                   get_metadata_in(data[k].key, data) # InvalidVariant

IndexSorted(index) ==
    \A k \in 1..(Len(index) - 1) : index[k].m_hash_value <= index[k + 1].m_hash_value

\* C27: after every registerType and registerCustomName call the index of
\* the original names and the index of the custom names are in ascending
\* order of the hash values, and each holds one entry for every id from 1
\* to the id counter.
C27_NameIndexesSorted ==
    /\ IndexSorted(m_orig_name_to_id)
    /\ IndexSorted(m_custom_name_to_id)
    /\ Len(m_orig_name_to_id) = m_type_id_counter
    /\ Len(m_custom_name_to_id) = m_type_id_counter
    /\ Range(IdKeys(m_orig_name_to_id)) = RegisteredIds
    /\ Range(IdKeys(m_custom_name_to_id)) = RegisteredIds

\* C27 witness: a renaming has moved the entry of the type registered
\* first behind that of the type registered second in the index of the
\* custom names, while the index of the original names has it in front
C27_Witness ==
    /\ last_call.op = "register_custom_name"
    /\ last_call.t = 1
    /\ m_type_id_counter = 2
    /\ m_custom_name_to_id[1].m_id = 2
    /\ m_custom_name_to_id[1].m_hash_value < m_custom_name_to_id[2].m_hash_value
    /\ m_orig_name_to_id[1].m_id = 1

(***************************************************************************)
(* The cast function kept for a base type that is handed in twice.         *)
(***************************************************************************)
\* the positions of base type b in a list of base classes
PositionsOf(base_classes, b) ==
    {k \in 1..Len(base_classes) : base_classes[k].m_base_type = b}

FirstOf(S) == CHOOSE k \in S : \A j \in S : k <= j

LastOf(S) == CHOOSE k \in S : \A j \in S : k >= j

\* C28 (as claimed): when the base list of a new type names a base type
\* several times, the conversion function stored with that base in the row
\* of the new type is the one of its first entry in the list.
C28_FirstOccurrenceKept ==
    last_call.op = "register_type" =>
        \A b \in PassedTwice(last_call.arg) :
            \A i \in 1..RTTR_MAX_INHERIT_TYPES_COUNT :
                RowOf(m_base_class_list, last_call.ret)[i] = b =>
                    RowOf(m_conversion_list, last_call.ret)[i] =
                        last_call.arg[FirstOf(PositionsOf(last_call.arg, b))]
                            .m_rttr_cast_func

\* C28 (amended): the conversion function stored is the one of the last
\* entry of that base type in the list.
C28_LastOccurrenceKept ==
    last_call.op = "register_type" =>
        \A b \in PassedTwice(last_call.arg) :
            \A i \in 1..RTTR_MAX_INHERIT_TYPES_COUNT :
                RowOf(m_base_class_list, last_call.ret)[i] = b =>
                    RowOf(m_conversion_list, last_call.ret)[i] =
                        last_call.arg[LastOf(PositionsOf(last_call.arg, b))]
                            .m_rttr_cast_func

\* C28 witness: a class was registered with one base type twice, with
\* cast functions 1 and 2; the row holds the base with cast function 2
C28_Witness ==
    /\ last_call.op = "register_type"
    /\ Len(last_call.arg) = 2
    /\ PassedTwice(last_call.arg) # {}
    /\ RowOf(m_base_class_list, last_call.ret)[1] = last_call.arg[1].m_base_type
    /\ RowOf(m_conversion_list, last_call.ret)[1] = 2

(***************************************************************************)
(* The base rows and the derived rows describe the same relation.          *)
(***************************************************************************)
BaseRowOf(d) == RowOf(m_base_class_list, get_raw_type(d))

DerivedRowOf(b) == RowOf(m_derived_class_list, get_raw_type(b))

\* the registered types that have b in their base row
TypesDerivedFrom(b) == {d \in RegisteredIds : Count(BaseRowOf(d), b) > 0}

\* no list of bases was longer than a row, and no base has more derived
\* types than its row has slots
NoRowCapacityExceeded ==
    /\ ~out_of_bounds
    /\ \A b \in RegisteredIds :
           Cardinality(TypesDerivedFrom(b)) <= RTTR_MAX_INHERIT_TYPES_COUNT

\* valid ids in strictly ascending order, then invalid ids only
AscendingPrefix(row) ==
    \A i \in DOMAIN row : \A j \in DOMAIN row :
        i < j => \/ row[j] = m_invalid_id
                 \/ (row[i] # m_invalid_id /\ row[i] < row[j])

NameChars == {"A", "B", "*", " "}

\* the source names: up to MaxSrcLen characters, no white space at the ends
SourceNames ==
    UNION {{src \in [1..n -> NameChars] :
                ~isspace(src[1]) /\ ~isspace(src[n])} : n \in 1..MaxSrcLen}

DeriveRawNames == {<<"A">>, <<"A", "B">>}

DeriveCustomNames == {<<"X">>, <<"X", "A">>}

\* the three strings are chosen
InitDerive ==
    /\ InitRegistry
    /\ \E src_name \in SourceNames : \E raw_name \in DeriveRawNames :
           \E custom_name \in DeriveCustomNames :
               last_call = Call("derive_name_args", 0, src_name,
                                <<raw_name, custom_name>>, <<>>)

\* derive_name(src_name, raw_name, custom_name) is called with them
DeriveName ==
    /\ last_call.op = "derive_name_args"
    /\ last_call' = Call("derive_name", 0, last_call.name, last_call.arg,
                         derive_name3(last_call.name, last_call.arg[1],
                                      last_call.arg[2]))
    /\ UNCHANGED <<typeVars, memberVars, itemVars, renames, threads>>

NextDerive == DeriveName

SpecDerive == InitDerive /\ [][NextDerive]_vars

\* the index in src of its k-th character that is not white space
RECURSIVE IndexOfStripped(_, _, _)
IndexOfStripped(src, k, from) ==
    IF from > Len(src) THEN 0
    ELSE IF isspace(src[from]) THEN IndexOfStripped(src, k, from + 1)
    ELSE IF k = 1 THEN from
    ELSE IndexOfStripped(src, k - 1, from + 1)

\* src has white space between its k-th and its (k+1)-th character that is
\* not white space
SpaceAtBoundary(src, k) ==
    /\ k >= 1
    /\ k < Len(remove_whitespaces(src))
    /\ IndexOfStripped(src, k + 1, 1) - IndexOfStripped(src, k, 1) > 1

\* the name the description gives
DescribedName(src, raw, custom) ==
    LET s   == remove_whitespaces(src)
        r   == remove_whitespaces(raw)
        pos == find(s, r)
    IN  IF pos = npos THEN src
        ELSE SubSeq(s, 1, pos)
                 \o (IF SpaceAtBoundary(src, pos) THEN <<" ">> ELSE <<>>)
                 \o custom
                 \o (IF SpaceAtBoundary(src, pos + Len(r)) THEN <<" ">> ELSE <<>>)
                 \o SubSeq(s, pos + Len(r) + 1, Len(s))

\* C30: derive_name returns the source unchanged when the stripped raw name
\* does not occur in the stripped source; otherwise the stripped source
\* with the occurrence replaced by the custom name, with one space between
\* the part in front and the replacement, and between the replacement and
\* the part behind, exactly when the source had white space there.
C30_DerivedAsDescribed ==
    last_call.op = "derive_name" =>
        last_call.ret = DescribedName(last_call.name, last_call.arg[1],
                                      last_call.arg[2])

\* C30 for parts of one character: the description holds when the part in
\* front and the part behind have at most one character
C30_SingleCharacterParts ==
    (/\ last_call.op = "derive_name"
     /\ find(remove_whitespaces(last_call.name), last_call.arg[1]) # npos
     /\ Len(remove_whitespaces(last_call.name)) - Len(last_call.arg[1]) <= 1) =>
        last_call.ret = DescribedName(last_call.name, last_call.arg[1],
                                      last_call.arg[2])

(***************************************************************************)
(* Constructors of classes that have base classes.                         *)
(***************************************************************************)
ClassCtorParamLists == {<<>>, <<1>>}

RECURSIVE ClassCtorCount(_)
ClassCtorCount(ids) ==
    IF ids = {} THEN 0
    ELSE LET t == CHOOSE x \in ids : TRUE
         IN  Len(get_constructors(t)) + ClassCtorCount(ids \ {t})

RegisterCtorClass ==
    \E base_classes \in FittingBaseLists(RootIds) :
        /\ m_type_id_counter < MaxCtorClasses
        /\ RegisterType(ClassNames[m_type_id_counter + 1], 0, 0, 0, base_classes,
                        ClassInfo)

RegisterClassConstructor ==
    \E t \in AnyIds, params \in ClassCtorParamLists :
        /\ ClassCtorCount(RegisteredIds) < MaxClassCtors
        /\ RegisterConstructor(t, params)

NextCtorClass == RegisterCtorClass \/ RegisterClassConstructor

SpecCtorClass == Init /\ [][NextCtorClass]_vars

\* the lookups on a given constructor table
ConstructorsIn(map, t) == MapGet(map, t)

ConstructorIn(map, t, arg_type_list) == FirstMatching(MapGet(map, t), arg_type_list)

FrontIn(map, t) == IF MapGet(map, t) = <<>> THEN InvalidItem ELSE Head(MapGet(map, t))

\* C31: a constructor registered on a valid type t is appended to the list
\* of t and to no other list, whatever is in the list already; no lookup
\* of constructors on a type returns a constructor registered on another
\* type, a base included; get_constructor(t) without a signature returns
\* the constructor that was registered first on t.
C31_ConstructorsPerType ==
    [][(last_call'.op = "register_constructor" /\ last_call'.ret = TRUE) =>
          LET t   == last_call'.t
              old == ConstructorsIn(m_type_ctor_map, t)
              new == ConstructorsIn(m_type_ctor_map', t)
          IN  /\ Len(new) = Len(old) + 1
              /\ SubSeq(new, 1, Len(old)) = old
              /\ new[Len(new)].declaring_type = t
              /\ \A d \in RegisteredIds \ {t} :
                     ConstructorsIn(m_type_ctor_map', d)
                         = ConstructorsIn(m_type_ctor_map, d)
              /\ \A d \in RegisteredIds :
                     /\ \A k \in 1..Len(ConstructorsIn(m_type_ctor_map', d)) :
                            ConstructorsIn(m_type_ctor_map', d)[k].declaring_type = d
                     /\ \A L \in {<<>>, <<1>>, <<2>>, <<1, 1>>} :
                            ConstructorIn(m_type_ctor_map', d, L).declaring_type
                                \in {d, m_invalid_id}
              /\ FrontIn(m_type_ctor_map', t) = IF old = <<>> THEN new[1] ELSE old[1]
      ]_vars

\* C31 witness: class 2 has the base 1; a second constructor without
\* parameters was registered on class 1, and class 2 has no constructor
C31_Witness ==
    /\ last_call.op = "register_constructor"
    /\ last_call.t = 1
    /\ m_type_id_counter >= 2
    /\ 1 \in Range(get_base_classes(2))
    /\ get_constructors(1) = <<Item("", <<>>, 1), Item("", <<>>, 1)>>
    /\ get_constructors(2) = <<>>
    /\ get_constructor(2, <<>>) = InvalidItem
    /\ get_constructor_front(2) = InvalidItem
    /\ get_constructor_front(1) = Item("", <<>>, 1)

(***************************************************************************)
(* The custom-name index and the custom names.                             *)
(***************************************************************************)
\* the hash values the custom-name index holds for an id
CustomHashesOf(id) ==
    {m_custom_name_to_id[k].m_hash_value :
        k \in {j \in 1..Len(m_custom_name_to_id) : m_custom_name_to_id[j].m_id = id}}

\* every id has one entry in the custom index, with the hash of its
\* custom name
CustomIndexCoherent ==
    \A id \in RegisteredIds :
        CustomHashesOf(id) = {generate_hash(At(m_custom_names, id))}

\* the custom name of a renamed type is the name handed in
RenamedAsAsked ==
    (last_call.op = "register_custom_name" /\ last_call.t \in RegisteredIds) =>
        At(m_custom_names, last_call.t) = last_call.name

\* C32: in every state the hash in the custom-index entry of every id is
\* the hash of the id's custom name, and after register_custom_name(t, n)
\* on a valid type the custom name of t is n.
C32_CustomIndexCoherent == CustomIndexCoherent /\ RenamedAsAsked

(***************************************************************************)
(* What register_type leaves alone.                                        *)
(***************************************************************************)
\* the name of the type whose derived-info function is in slot p: the slot
\* is assigned when a type with raw type p is registered
DerivedFuncIn(p) ==
    IF \E q \in RegisteredIds : get_raw_type(q) = p
    THEN At(m_get_derived_info_func_list, p)[2]
    ELSE <<>>

\* everything the registry stores per type for the registered type p, save
\* its derived row
AttributesOf(p) ==
    << At(m_orig_names, p), At(m_custom_names, p),
       At(m_raw_type_list, p), At(m_wrapped_type_list, p),
       At(m_array_raw_type_list, p), At(m_type_size, p),
       At(m_is_class_list, p), At(m_is_enum_list, p), At(m_is_array_list, p),
       At(m_is_pointer_list, p), At(m_is_arithmetic_list, p),
       At(m_is_function_pointer_list, p),
       At(m_is_member_object_pointer_list, p),
       At(m_is_member_function_pointer_list, p), At(m_pointer_dim_list, p),
       DerivedFuncIn(p), At(m_variant_create_func_list, p),
       RowOf(m_base_class_list, p), RowOf(m_conversion_list, p) >>

\* C33: the registration of a new type changes no stored attribute of a
\* type registered before: names, raw, wrapped and array raw ids, size,
\* flags, derived-info function, variant function, base row and conversion
\* row stay as they were, also when the raw type of the new type is the
\* type registered before.
C33_RegisterTypeFrame ==
    [][last_call'.op = "register_type" =>
          \A p \in RegisteredIds : AttributesOf(p)' = AttributesOf(p)]_vars

\* the same without the derived-info function
C33_FrameButDerivedFunc ==
    [][last_call'.op = "register_type" =>
          \A p \in RegisteredIds :
              \A k \in (1..19) \ {16} : AttributesOf(p)'[k] = AttributesOf(p)[k]]_vars

(***************************************************************************)
(* Members of one name in a class and in its bases.                        *)
(***************************************************************************)
\* the lists of bases: none for class 1, none or class 1 for class 2, class 1
\* or the classes 1 and 2 for the classes after them
ShadowBaseLists ==
    {AscendingList(B) :
        B \in {C \in {{}, {1}, {1, 2}} :
                  /\ C \subseteq RegisteredIds
                  /\ m_type_id_counter >= 2 => C # {}}}

RECURSIVE OwnMembers(_)
OwnMembers(ids) ==
    IF ids = {} THEN 0
    ELSE LET t == CHOOSE x \in ids : TRUE
         IN  Len(MapGet(m_type_property_map, t)) + Len(MapGet(m_type_method_map, t))
                 + OwnMembers(ids \ {t})

RegisterShadowClass ==
    \E base_classes \in ShadowBaseLists :
        /\ m_type_id_counter < MaxShadowClasses
        /\ RegisterType(ClassNames[m_type_id_counter + 1], 0, 0, 0, base_classes,
                        ClassInfo)

RegisterShadowProperty ==
    \E t \in RegisteredIds :
        /\ OwnMembers(RegisteredIds) < MaxShadowMembers
        /\ RegisterProperty(t, "p")

RegisterShadowMethod ==
    \E t \in RegisteredIds :
        /\ OwnMembers(RegisteredIds) < MaxShadowMembers
        /\ RegisterMethod(t, "m", <<>>)

NextShadow == RegisterShadowClass \/ RegisterShadowProperty \/ RegisterShadowMethod

SpecShadow == Init /\ [][NextShadow]_vars

\* the bases in the base row of d that own an item of the name
OwnersAmongBases(d, name, type_map) ==
    {b \in Range(get_base_classes(d)) : FirstNamed(MapGet(type_map, b), name) # InvalidItem}

LeastOf(S) == CHOOSE b \in S : \A c \in S : b <= c

\* the lookups of the name on class d give the item of the base of the
\* smallest id in the class list, and the item of d in the own list
ShadowedIn(d, name, type_map, class_map) ==
    /\ FirstNamed(MapGet(class_map, d), name).declaring_type
           = LeastOf(OwnersAmongBases(d, name, type_map))
    /\ FirstNamed(MapGet(type_map, d), name).declaring_type = d

\* C34 (as claimed): when class D and one or more of its bases own a
\* member of one name, the class lookups of the name on D return the member
\* of the base with the smallest id, the type lookups the member of D.
C34_BaseMemberShadows ==
    \A d \in RegisteredIds :
        /\ (/\ FirstNamed(MapGet(m_type_property_map, d), "p") # InvalidItem
            /\ OwnersAmongBases(d, "p", m_type_property_map) # {})
               => /\ ShadowedIn(d, "p", m_type_property_map, m_class_property_map)
                  /\ get_class_property(d, "p").declaring_type # d
                  /\ get_type_property(d, "p").declaring_type = d
        /\ (/\ FirstNamed(MapGet(m_type_method_map, d), "m") # InvalidItem
            /\ OwnersAmongBases(d, "m", m_type_method_map) # {})
               => /\ ShadowedIn(d, "m", m_type_method_map, m_class_method_map)
                  /\ get_class_method_named(d, "m").declaring_type # d
                  /\ get_type_method_named(d, "m").declaring_type = d

\* d is in the derived row of every base of its base row that owns the name
RecordedWithOwners(d, name, type_map) ==
    \A b \in OwnersAmongBases(d, name, type_map) : d \in Range(get_derived_classes(b))

\* C34 (amended): the same for a class D that is recorded in the derived
\* row of each of those bases.
C34_RecordedBaseMemberShadows ==
    \A d \in RegisteredIds :
        /\ (/\ FirstNamed(MapGet(m_type_property_map, d), "p") # InvalidItem
            /\ OwnersAmongBases(d, "p", m_type_property_map) # {}
            /\ RecordedWithOwners(d, "p", m_type_property_map))
               => /\ ShadowedIn(d, "p", m_type_property_map, m_class_property_map)
                  /\ get_class_property(d, "p").declaring_type # d
                  /\ get_type_property(d, "p").declaring_type = d
        /\ (/\ FirstNamed(MapGet(m_type_method_map, d), "m") # InvalidItem
            /\ OwnersAmongBases(d, "m", m_type_method_map) # {}
            /\ RecordedWithOwners(d, "m", m_type_method_map))
               => /\ ShadowedIn(d, "m", m_type_method_map, m_class_method_map)
                  /\ get_class_method_named(d, "m").declaring_type # d
                  /\ get_type_method_named(d, "m").declaring_type = d

\* C34 witness: class 3 has the bases 1 and 2; property p was registered on
\* class 3, then on class 2, then on class 1, and method m on class 3 after
\* class 1; the class lookups on 3 give the members of class 1
C34_Witness ==
    /\ m_type_id_counter >= 3
    /\ get_base_classes(3) = <<1, 2>>
    /\ get_class_properties(3) = <<Item("p", <<>>, 1), Item("p", <<>>, 2), Item("p", <<>>, 3)>>
    /\ get_class_property(3, "p") = Item("p", <<>>, 1)
    /\ get_type_property(3, "p") = Item("p", <<>>, 3)
    /\ last_call.op = "register_property"
    /\ last_call.t = 1

(***************************************************************************)
(* register_property step by step: the recursion of update_class_list.     *)
(* The caller is thread 1; the stack holds the classes whose call of       *)
(* update_class_list is pending, the innermost first.                      *)
(***************************************************************************)
Updating(pc, t, name, stack, visited, before) ==
    [pc |-> pc, t |-> t, name |-> name, stack |-> stack, visited |-> visited,
     before |-> before]

\* register_property is being executed
InUpdate == threads[1].pc # "idle"

UpdatePropertyNames == {"p"}

RECURSIVE OwnProperties(_)
OwnProperties(ids) ==
    IF ids = {} THEN 0
    ELSE LET t == CHOOSE x \in ids : TRUE
         IN  Len(MapGet(m_type_property_map, t)) + OwnProperties(ids \ {t})

RegisterUpdateClass ==
    \E base_classes \in ShadowBaseLists :
        /\ ~InUpdate
        /\ m_type_id_counter < MaxUpdateClasses
        /\ RegisterType(ClassNames[m_type_id_counter + 1], 0, 0, 0, base_classes,
                        ClassInfo)

\* register_property on a class up to the first call of update_class_list
StartUpdate ==
    \E t \in RegisteredIds, name \in UpdatePropertyNames :
        /\ ~InUpdate
        /\ \/ OwnProperties(RegisteredIds) < MaxUpdateCalls
           \/ get_type_property(t, name) # InvalidItem
        /\ is_class(t)
        /\ IF get_type_property(t, name) # InvalidItem
           THEN /\ last_call' = Call("register_property", t, name, <<>>, FALSE)
                /\ UNCHANGED <<typeVars, memberVars, itemVars, renames, threads>>
           ELSE /\ m_type_property_map' =
                       MapPut(m_type_property_map, t,
                              Append(MapGet(m_type_property_map, t),
                                     Item(name, <<>>, t)))
                /\ threads' = [threads EXCEPT ![1] =
                                  Updating("update_class_list", t, name, <<t>>, <<>>,
                                           m_class_property_map)]
                /\ UNCHANGED <<typeVars, m_class_property_map, m_global_properties,
                               methodVars, ctorVars, itemVars, renames, last_call>>

\* a call that descends into the first derived class only
UpdateStepFirstDerived ==
    /\ threads[1].pc = "update_class_list"
    /\ LET x       == Head(threads[1].stack)
           derived == get_derived_classes(x)
           stack   == (IF derived = <<>> THEN <<>> ELSE <<Head(derived)>>)
                          \o Tail(threads[1].stack)
       IN  /\ m_class_property_map' =
                  update_class_list_of(x, m_type_property_map, m_class_property_map)
           /\ threads' = [threads EXCEPT ![1] =
                             Updating(IF stack = <<>> THEN "returned"
                                      ELSE "update_class_list",
                                      threads[1].t, threads[1].name, stack,
                                      Append(threads[1].visited, x),
                                      threads[1].before)]
           /\ last_call' = IF stack = <<>>
                           THEN Call("register_property", threads[1].t,
                                     threads[1].name, <<>>, TRUE)
                           ELSE last_call
    /\ UNCHANGED <<typeVars, m_type_property_map, m_global_properties,
                   methodVars, ctorVars, itemVars, renames>>

\* one call of update_class_list: the class list of the innermost pending
\* class is built, and the calls for its derived classes become pending, in
\* the order of its derived row; register_property returns after the last
UpdateStep ==
    /\ threads[1].pc = "update_class_list"
    /\ LET x     == Head(threads[1].stack)
           stack == get_derived_classes(x) \o Tail(threads[1].stack)
       IN  /\ m_class_property_map' =
                  update_class_list_of(x, m_type_property_map, m_class_property_map)
           /\ threads' = [threads EXCEPT ![1] =
                             Updating(IF stack = <<>> THEN "returned"
                                      ELSE "update_class_list",
                                      threads[1].t, threads[1].name, stack,
                                      Append(threads[1].visited, x),
                                      threads[1].before)]
           /\ last_call' = IF stack = <<>>
                           THEN Call("register_property", threads[1].t,
                                     threads[1].name, <<>>, TRUE)
                           ELSE last_call
    /\ UNCHANGED <<typeVars, m_type_property_map, m_global_properties,
                   methodVars, ctorVars, itemVars, renames>>

\* register_property is left
UpdateReturn ==
    /\ threads[1].pc = "returned"
    /\ threads' = [threads EXCEPT ![1] = IdleThread]
    /\ UNCHANGED <<typeVars, memberVars, itemVars, renames, last_call>>

NextUpdate == RegisterUpdateClass \/ StartUpdate \/ UpdateStep \/ UpdateReturn

SpecUpdate == Init /\ [][NextUpdate]_vars

\* the recursion runs on once it was entered
SpecUpdateLive == SpecUpdate /\ WF_vars(UpdateStep)

\* the classes reached from the classes S along the derived rows
RECURSIVE DerivedWithin(_, _)
DerivedWithin(S, n) ==
    IF n = 0 THEN S
    ELSE DerivedWithin(S \cup UNION {Range(get_derived_classes(b)) : b \in S}, n - 1)

\* the recursion is over and register_property is about to return
JustReturned == threads[1].pc = "returned"

====
